---- MODULE Spec2Model ----
(***************************************************************************)
(* Model of the WQB expression validator.                                  *)
(*                                                                         *)
(* Two validation pipelines live in the repository:                        *)
(*   - wqb_validator/validator.py : ExpressionValidator.validate runs five *)
(*     text based sub-validators that are fields of the instance;          *)
(*   - validator/validator.py     : ExpressionValidator.validate runs a    *)
(*     lexical scan, a trailing-assignment rule, the grammar parser and    *)
(*     the tree walking ExprValidator.                                     *)
(*                                                                         *)
(* A text is a sequence of one-character strings; lines are 1-based and a  *)
(* column is the 1-based index of a character in its line.                 *)
(***************************************************************************)
EXTENDS Integers, Sequences, FiniteSets, TLC

\* Python's None for an Optional[int] position.
None == -1

NL == "\n"
QUOTE == "\""

(***************************************************************************)
(* Character classes of the regular expressions in the source.             *)
(***************************************************************************)
Letter == {"a", "b", "c", "d", "e", "f", "g", "h", "i", "j", "k", "l", "m",
           "n", "o", "p", "q", "r", "s", "t", "u", "v", "w", "x", "y", "z"}
Digit == {"0", "1", "2", "3", "4", "5", "6", "7", "8", "9"}
Space == {" ", NL, "\t"}
OpChar == {"+", "-", "*", "/"}

\* \w
IsWord(ch) == ch \in Letter \cup Digit \cup {"_"}

\* [a-zA-Z_]
IsIdStart(ch) == ch \in Letter \cup {"_"}

\* allowed_pattern: [a-zA-Z0-9_\s=+\-*/()><=!;.,"'#]
IsAllowed(ch) ==
    \/ IsWord(ch)
    \/ ch \in Space
    \/ ch \in {"=", "+", "-", "*", "/", "(", ")", ">", "<", "!", ";", ".", ",",
               QUOTE, "'", "#"}

(***************************************************************************)
(* String helpers (str.find, str.strip, str.splitlines, str.join, ...).    *)
(***************************************************************************)
Min(S) == CHOOSE m \in S : \A n \in S : m <= n
Max(S) == CHOOSE m \in S : \A n \in S : n <= m

Drop(s, n) == SubSeq(s, n + 1, Len(s))
Take(s, n) == SubSeq(s, 1, n)

\* 1-based index of the first ch at or after position from, 0 when absent
\* (str.find returns -1 for that).
Find(s, ch, from) ==
    LET hits == {i \in from..Len(s) : s[i] = ch}
    IN  IF hits = {} THEN 0 ELSE Min(hits)

RFind(s, ch) ==
    LET hits == {i \in 1..Len(s) : s[i] = ch}
    IN  IF hits = {} THEN 0 ELSE Max(hits)

Contains(s, ch) == \E i \in 1..Len(s) : s[i] = ch

Count(s, ch) == Cardinality({i \in 1..Len(s) : s[i] = ch})

StartsAt(s, i, pat) ==
    /\ i + Len(pat) - 1 <= Len(s)
    /\ \A k \in 1..Len(pat) : s[i + k - 1] = pat[k]

\* 1-based index of the first occurrence of pat at or after from, 0 if none
FindSeq(s, pat, from) ==
    LET hits == {i \in from..Len(s) + 1 : StartsAt(s, i, pat)}
    IN  IF hits = {} THEN 0 ELSE Min(hits)

LStrip(s) ==
    LET keep == {i \in 1..Len(s) : s[i] \notin Space}
    IN  IF keep = {} THEN <<>> ELSE Drop(s, Min(keep) - 1)

RStrip(s) ==
    LET keep == {i \in 1..Len(s) : s[i] \notin Space}
    IN  IF keep = {} THEN <<>> ELSE Take(s, Max(keep))

Strip(s) == LStrip(RStrip(s))

RECURSIVE SplitOn(_, _)
\* str.split(sep) for a one-character separator: always at least one part
SplitOn(s, sep) ==
    LET i == Find(s, sep, 1)
    IN  IF i = 0 THEN <<s>>
        ELSE <<Take(s, i - 1)>> \o SplitOn(Drop(s, i), sep)

\* str.splitlines(): no trailing empty line, and none at all for ""
SplitLines(s) ==
    IF s = <<>> THEN <<>>
    ELSE LET parts == SplitOn(s, NL)
         IN  IF parts[Len(parts)] = <<>> THEN Take(parts, Len(parts) - 1)
             ELSE parts

RECURSIVE JoinLines(_)
\* "\n".join(lines)
JoinLines(lines) ==
    IF lines = <<>> THEN <<>>
    ELSE IF Len(lines) = 1 THEN lines[1]
    ELSE lines[1] \o <<NL>> \o JoinLines(Tail(lines))

RECURSIVE Concat(_)
Concat(ss) == IF ss = <<>> THEN <<>> ELSE ss[1] \o Concat(Tail(ss))

RECURSIVE SortedSeq(_)
\* the elements of a finite set of integers in increasing order
SortedSeq(S) ==
    IF S = {} THEN <<>> ELSE <<Min(S)>> \o SortedSeq(S \ {Min(S)})

\* start positions of the maximal \w runs of s
RunStarts(s) ==
    {i \in 1..Len(s) : IsWord(s[i]) /\ (i = 1 \/ ~IsWord(s[i - 1]))}

\* last position of the \w run that starts at i
RunEnd(s, i) ==
    Max({j \in i..Len(s) : \A k \in i..j : IsWord(s[k])})

RunAt(s, i) == SubSeq(s, i, RunEnd(s, i))

\* position after the whitespace that starts at i (\s*)
SkipSpace(s, i) ==
    Min({j \in i..Len(s) + 1 : j = Len(s) + 1 \/ s[j] \notin Space})

(***************************************************************************)
(* ValidationError (wqb_validator/validator.py): message, line, column,    *)
(* code, suggestion.  The message is kept as its kind (code) and the text  *)
(* it quotes (what); src names the validator that produced it.             *)
(***************************************************************************)
Err(src, code, line, col, what, sugg) ==
    [src |-> src, code |-> code, line |-> line, col |-> col, what |-> what,
     arg |-> <<>>, sugg |-> sugg]

\* an error whose message quotes a second value (a keyword, a position)
ErrArg(src, code, what, arg, sugg) ==
    [src |-> src, code |-> code, line |-> None, col |-> None, what |-> what,
     arg |-> arg, sugg |-> sugg]

(***************************************************************************)
(* filter_comments                                                         *)
(***************************************************************************)
RECURSIVE StripBlockComments(_)
\* re.sub(r"/\*.*?\*/", "", expr, flags=re.DOTALL)
StripBlockComments(s) ==
    LET open == FindSeq(s, <<"/", "*">>, 1)
        close == IF open = 0 THEN 0 ELSE FindSeq(s, <<"*", "/">>, open + 2)
    IN  IF open = 0 \/ close = 0 THEN s
        ELSE Take(s, open - 1) \o StripBlockComments(Drop(s, close + 1))

CutLineComment(line) ==
    LET p == Find(line, "#", 1)
    IN  IF p = 0 THEN line ELSE Take(line, p - 1)

filter_comments(expr) ==
    LET lines == SplitLines(StripBlockComments(expr))
    IN  JoinLines([i \in 1..Len(lines) |-> CutLineComment(lines[i])])

(***************************************************************************)
(* CharacterValidator: the six per-line checks.                            *)
(***************************************************************************)
RECURSIVE CharScan(_, _, _)
CharScan(code_part, line_num, i) ==
    IF i > Len(code_part) THEN <<>>
    ELSE (IF IsAllowed(code_part[i]) THEN <<>>
          ELSE <<Err("lexical", "bad_char", line_num, i, <<code_part[i]>>,
                     TRUE)>>)
         \o CharScan(code_part, line_num, i + 1)

_validate_characters(code_part, line_num) == CharScan(code_part, line_num, 1)

\* r"\b\d+[a-zA-Z_][a-zA-Z0-9_]*\b": a \w run that starts with a digit and
\* holds a letter or an underscore
IsDigitStartRun(s, i) ==
    /\ s[i] \in Digit
    /\ \E k \in i..RunEnd(s, i) : s[k] \notin Digit

\* identifier_pattern r"\b[a-zA-Z_][a-zA-Z0-9_]*\b": a \w run that starts
\* with a letter or an underscore
IsIdentifierRun(s, i) == IsIdStart(s[i])

HasDoubleUnderscore(id) ==
    \E k \in 1..Len(id) - 1 : id[k] = "_" /\ id[k + 1] = "_"

\* an error for every match of digit_start_pattern
DigitStartErrs(code_part, line_num) ==
    LET digit == SelectSeq(SortedSeq(RunStarts(code_part)),
                           LAMBDA i : IsDigitStartRun(code_part, i))
    IN  [k \in 1..Len(digit) |->
            Err("lexical", "digit_start", line_num, digit[k],
                RunAt(code_part, digit[k]), TRUE)]

\* an error for every match of identifier_pattern that holds "__"
DoubleUnderscoreErrs(code_part, line_num) ==
    LET under == SelectSeq(SortedSeq(RunStarts(code_part)), LAMBDA i :
                     /\ IsIdentifierRun(code_part, i)
                     /\ HasDoubleUnderscore(RunAt(code_part, i)))
    IN  [k \in 1..Len(under) |->
            Err("lexical", "double_underscore", line_num, under[k],
                RunAt(code_part, under[k]), TRUE)]

\* the errors _validate_identifiers appends, in order
IdentifierErrs(code_part, line_num) ==
    DigitStartErrs(code_part, line_num)
    \o DoubleUnderscoreErrs(code_part, line_num)

\* self.errors after _validate_identifiers(code_part, line_num), which is
\* also the list the method returns
_validate_identifiers(errors, code_part, line_num) ==
    errors \o IdentifierErrs(code_part, line_num)

\* number_pattern r"\b\d+\.\d+\.\d+\b": end position of a match at i, or 0
AllDigits(s, i, j) == \A k \in i..j : s[k] \in Digit

MultiDotEnd(s, i) ==
    IF ~(IsWord(s[i]) /\ (i = 1 \/ ~IsWord(s[i - 1]))) THEN 0
    ELSE LET e1 == RunEnd(s, i)
         IN  IF ~AllDigits(s, i, e1) \/ e1 + 2 > Len(s) \/ s[e1 + 1] # "."
                \/ ~IsWord(s[e1 + 2]) THEN 0
             ELSE LET e2 == RunEnd(s, e1 + 2)
                  IN  IF ~AllDigits(s, e1 + 2, e2) \/ e2 + 2 > Len(s)
                         \/ s[e2 + 1] # "." \/ ~IsWord(s[e2 + 2]) THEN 0
                      ELSE LET e3 == RunEnd(s, e2 + 2)
                           IN  IF AllDigits(s, e2 + 2, e3) THEN e3 ELSE 0

RECURSIVE NumberScan(_, _, _)
\* finditer: matches do not overlap
NumberScan(code_part, line_num, i) ==
    IF i > Len(code_part) THEN <<>>
    ELSE LET e == MultiDotEnd(code_part, i)
         IN  IF e = 0 THEN NumberScan(code_part, line_num, i + 1)
             ELSE <<Err("lexical", "multi_dot", line_num, i,
                        SubSeq(code_part, i, e), TRUE)>>
                  \o NumberScan(code_part, line_num, e + 1)

_validate_numbers(code_part, line_num) == NumberScan(code_part, line_num, 1)

\* op_pattern r"[+\-*/]{2,}": maximal runs of operator characters of
\* length two or more
OpRunStarts(s) ==
    {i \in 1..Len(s) - 1 :
        /\ s[i] \in OpChar /\ s[i + 1] \in OpChar
        /\ (i = 1 \/ s[i - 1] \notin OpChar)}

OpRunEnd(s, i) == Max({j \in i..Len(s) : \A k \in i..j : s[k] \in OpChar})

_validate_operators(code_part, line_num) ==
    LET starts == SortedSeq(OpRunStarts(code_part))
    IN  [k \in 1..Len(starts) |->
            Err("lexical", "consecutive_op", line_num, starts[k],
                SubSeq(code_part, starts[k], OpRunEnd(code_part, starts[k])),
                TRUE)]

_validate_strings(code_part, line_num) ==
    LET quote_count == Count(code_part, QUOTE) + Count(code_part, "'")
        last_quote_pos == Max({RFind(code_part, QUOTE), RFind(code_part, "'")})
    IN  IF quote_count % 2 # 0 /\ last_quote_pos # 0
        THEN <<Err("lexical", "unterminated_string", line_num, last_quote_pos,
                   <<>>, TRUE)>>
        ELSE <<>>

RECURSIVE BracketScan(_, _, _, _)
\* a loop that goes on after a ")" that closes nothing
BracketScan_on(code_part, line_num, i, stack) ==
    IF i > Len(code_part) THEN [errs |-> <<>>, stack |-> stack]
    ELSE IF code_part[i] = "(" THEN
        BracketScan(code_part, line_num, i + 1, Append(stack, i))
    ELSE IF code_part[i] = ")" THEN
        IF stack # <<>> THEN
            BracketScan(code_part, line_num, i + 1, Take(stack, Len(stack) - 1))
        ELSE LET rest == BracketScan(code_part, line_num, i + 1, stack)
             IN  [errs |-> <<Err("lexical", "extra_rparen", line_num, i, <<>>,
                                 TRUE)>> \o rest.errs,
                  stack |-> rest.stack]
    ELSE BracketScan(code_part, line_num, i + 1, stack)

\* the loop over the characters; stack holds the positions of the open "("
BracketScan(code_part, line_num, i, stack) ==
    IF i > Len(code_part) THEN [errs |-> <<>>, stack |-> stack]
    ELSE IF code_part[i] = "(" THEN
        BracketScan(code_part, line_num, i + 1, Append(stack, i))
    ELSE IF code_part[i] = ")" THEN
        IF stack # <<>> THEN
            BracketScan(code_part, line_num, i + 1, Take(stack, Len(stack) - 1))
        ELSE [errs |-> <<Err("lexical", "extra_rparen", line_num, i, <<>>,
                             TRUE)>>,
              stack |-> stack]
    ELSE BracketScan(code_part, line_num, i + 1, stack)

_validate_brackets(code_part, line_num) ==
    LET scan == BracketScan(code_part, line_num, 1, <<>>)
    IN  scan.errs \o
        (IF scan.stack # <<>>
         THEN <<Err("lexical", "missing_rparen", line_num,
                    scan.stack[Len(scan.stack)], <<>>, TRUE)>>
         ELSE <<>>)

\* one iteration of the loop over the lines of CharacterValidator.validate
CharLineErrs(raw, line_num) ==
    LET line == RStrip(raw)
        code_part == CutLineComment(line)
    IN  IF line = <<>> \/ Strip(line)[1] = "#" THEN <<>>
        ELSE _validate_characters(code_part, line_num)
             \o IdentifierErrs(code_part, line_num)
             \o _validate_numbers(code_part, line_num)
             \o _validate_operators(code_part, line_num)
             \o _validate_strings(code_part, line_num)
             \o _validate_brackets(code_part, line_num)

\* BaseValidator.clear
\* a clear() that leaves the list as it is
clear_kept(errors) == errors

clear(errors) == <<>>

\* the errors the loop of CharacterValidator.validate adds
CharacterErrs(expr) ==
    LET lines == SplitLines(StripBlockComments(expr))
    IN  Concat([i \in 1..Len(lines) |-> CharLineErrs(lines[i], i)])

\* self.errors after CharacterValidator.validate(expr); errors is
\* self.errors before the call
CharacterValidator_validate(errors, expr) ==
    clear(errors) \o CharacterErrs(expr)

(***************************************************************************)
(* The catalogs.  valid_ops.json and data_fields.json are data the         *)
(* validator reads; the model fixes a small instance of each.  A signature *)
(* gives min_args, max_args (None when absent), arg_types, var_args_type   *)
(* (<<>> when absent), kwarg_types, choices and return_type.  An expected  *)
(* type is a list of kinds, as _is_type_compatible accepts.                *)
(***************************************************************************)
Sig(min, max, pos, var, kw, choices, ret) ==
    [min_args |-> min, max_args |-> max, arg_types |-> pos,
     var_args_type |-> var, kwarg_types |-> kw, choices |-> choices,
     return_type |-> ret]

NoKw == [k \in {} |-> <<>>]

\* an operator taking min to max positional arguments of any type
Plain(min, max) == Sig(min, max, <<>>, <<>>, NoKw, NoKw, "expr")

valid_ops ==
    (<<"f">> :> Sig(1, 1, <<<<"expr">>>>, <<>>, NoKw, NoKw, "expr"))
    @@
    (<<"g">> :> Sig(2, 3, <<<<"expr">>, <<"number">>>>, <<>>,
                    (<<"k">> :> <<"boolean">>), NoKw, "expr"))
    @@
    (<<"v">> :> Sig(1, None, <<<<"expr">>>>, <<"number">>, NoKw, NoKw, "expr"))
    @@ (<<"z">> :> Plain(0, 0)) @@ (<<"o">> :> Plain(0, 1))
    @@ (<<"p">> :> Plain(0, 2)) @@ (<<"q">> :> Plain(0, 3))
    @@ (<<"r">> :> Plain(1, 2)) @@ (<<"t">> :> Plain(1, 3))
    @@ (<<"h">> :> Plain(2, 2)) @@ (<<"w">> :> Plain(3, 3))

valid_field_names == {<<"c">>, <<"d">>}

(***************************************************************************)
(* OperatorValidator                                                       *)
(***************************************************************************)
\* r"(\w+)\s*\(([^)]*)\)" matched at the \w run starting at r: the positions
\* of its "(" and ")", or 0
CallOpen(expr, r) ==
    LET p == SkipSpace(expr, RunEnd(expr, r) + 1)
    IN  IF p <= Len(expr) /\ expr[p] = "(" THEN p ELSE 0

CallClose(expr, r) ==
    IF CallOpen(expr, r) = 0 THEN 0 ELSE Find(expr, ")", CallOpen(expr, r) + 1)

\* _parse_arguments
_parse_arguments(args_str) ==
    IF Strip(args_str) = <<>> THEN <<>>
    ELSE LET parts == SplitOn(args_str, ",")
         IN  [i \in 1..Len(parts) |->
                LET part == Strip(parts[i])
                    eq == Find(part, "=", 1)
                IN  IF eq # 0
                    THEN [type |-> "keyword", name |-> Strip(Take(part, eq - 1)),
                          value |-> Strip(Drop(part, eq))]
                    ELSE [type |-> "positional", name |-> <<>>, value |-> part]]

RECURSIVE ExtractFrom(_, _)
\* pattern.finditer(expr) from position from on: matches do not overlap
ExtractFrom(expr, from) ==
    LET starts == {r \in RunStarts(expr) : r >= from /\ CallClose(expr, r) # 0}
    IN  IF starts = {} THEN <<>>
        ELSE LET r == Min(starts)
                 open == CallOpen(expr, r)
                 close == CallClose(expr, r)
             IN  <<[name |-> RunAt(expr, r),
                    args |-> _parse_arguments(SubSeq(expr, open + 1, close - 1)),
                    position |-> r]>>
                 \o ExtractFrom(expr, close + 1)

_extract_function_calls(expr) == ExtractFrom(expr, 1)

\* Python truthiness of an Optional[int]
Truthy(n) == n # None /\ n # 0

TextTooMany(max_args, n) == Truthy(max_args) /\ n > max_args

\* the errors _validate_function_call adds for one extracted call
_validate_function_call(operators_data, func_call) ==
    LET op_name == func_call.name
        args == func_call.args
    IN  IF op_name \notin DOMAIN operators_data
        THEN <<ErrArg("operator", "unknown_operator", op_name, <<>>, TRUE)>>
        ELSE
        LET op_info == operators_data[op_name]
            positional_args == SelectSeq(args, LAMBDA a : a.type = "positional")
            keyword_args == SelectSeq(args, LAMBDA a : a.type = "keyword")
            bad_kw == SelectSeq(keyword_args,
                          LAMBDA a : a.name \notin DOMAIN op_info.kwarg_types)
        IN  (IF Len(positional_args) < op_info.min_args
             THEN <<ErrArg("operator", "too_few", op_name, <<>>, TRUE)>>
             ELSE <<>>)
            \o
            (IF TextTooMany(op_info.max_args, Len(positional_args))
             THEN <<ErrArg("operator", "too_many", op_name, <<>>, TRUE)>>
             ELSE <<>>)
            \o
            [i \in 1..Len(bad_kw) |->
                ErrArg("operator", "bad_kwarg", op_name, bad_kw[i].name, TRUE)]

\* the errors the loop of OperatorValidator.validate adds
OperatorErrs(operators_data, expr) ==
    LET calls == _extract_function_calls(expr)
    IN  Concat([i \in 1..Len(calls) |->
                   _validate_function_call(operators_data, calls[i])])

\* self.errors after OperatorValidator.validate(expr)
OperatorValidator_validate(errors, operators_data, expr) ==
    clear(errors) \o OperatorErrs(operators_data, expr)

(***************************************************************************)
(* DataFieldValidator                                                      *)
(***************************************************************************)
BoolWords == {<<"t", "r", "u", "e">>, <<"f", "a", "l", "s", "e">>}

\* re.search(rf"\b{name}\s*\(", expr)
_is_function_call(name, expr) ==
    \E i \in 1..Len(expr) :
        /\ StartsAt(expr, i, name)
        /\ (i = 1 \/ ~IsWord(expr[i - 1]))
        /\ LET p == SkipSpace(expr, i + Len(name))
           IN  p <= Len(expr) /\ expr[p] = "("

_is_operator(name) == name \in DOMAIN valid_ops

\* re.search(rf"\b{name}\s*=", expr) or re.search(rf"{name}\s*=", expr) or a
\* boolean word; the second pattern subsumes the first
_is_variable_name(name, expr) ==
    \/ \E i \in 1..Len(expr) :
        /\ StartsAt(expr, i, name)
        /\ LET p == SkipSpace(expr, i + Len(name))
           IN  p <= Len(expr) /\ expr[p] = "="
    \/ name \in BoolWords

\* the identifiers kept as field references, in the order of their first
\* occurrence (the source keeps them in a set)
_extract_field_references(expr) ==
    LET starts == SortedSeq({r \in RunStarts(expr) : IsIdentifierRun(expr, r)})
        kept == SelectSeq(starts, LAMBDA r :
                    /\ ~_is_function_call(RunAt(expr, r), expr)
                    /\ ~_is_operator(RunAt(expr, r))
                    /\ ~_is_variable_name(RunAt(expr, r), expr))
        first == SelectSeq(kept, LAMBDA r :
                    \A q \in RunStarts(expr) :
                        q < r => RunAt(expr, q) # RunAt(expr, r))
    IN  [k \in 1..Len(first) |-> RunAt(expr, first[k])]

\* the errors the loop of DataFieldValidator.validate adds
FieldErrs(valid_fields, expr) ==
    LET refs == _extract_field_references(expr)
        bad == SelectSeq(refs, LAMBDA f : f \notin valid_fields)
    IN  [k \in 1..Len(bad) |->
            ErrArg("field", "invalid_field", bad[k], <<>>, TRUE)]

\* self.errors after DataFieldValidator.validate(expr)
DataFieldValidator_validate(errors, valid_fields, expr) ==
    clear(errors) \o FieldErrs(valid_fields, expr)

(***************************************************************************)
(* BusinessRuleValidator                                                   *)
(***************************************************************************)
\* ^[a-zA-Z_][a-zA-Z0-9_]*$
IsIdentifier(s) ==
    /\ s # <<>>
    /\ IsIdStart(s[1])
    /\ \A k \in 1..Len(s) : IsWord(s[k])

\* [s.strip() for s in line.split(";") if s.strip()]
Statements(line) ==
    LET parts == SplitOn(line, ";")
        stripped == [i \in 1..Len(parts) |-> Strip(parts[i])]
    IN  SelectSeq(stripped, LAMBDA st : st # <<>>)

\* the textual test for "last_stmt is an assignment": an "=" that is not the
\* first character, no "(" before it, and an identifier on its left
LooksLikeAssignment(last_stmt) ==
    LET equal_pos == Find(last_stmt, "=", 1)
        before_equal == Strip(Take(last_stmt, equal_pos - 1))
    IN  /\ equal_pos > 1
        /\ ~Contains(before_equal, "(")
        /\ IsIdentifier(before_equal)

\* only a line that holds two statements or more is examined
BusinessLineChecked(statements) == Len(statements) > 1

\* one iteration of the loop of _check_assignment_rules
AssignmentRuleLine(raw, line_num) ==
    LET line == Strip(raw)
        statements == Statements(line)
    IN  IF line = <<>> \/ line[1] = "#" THEN <<>>
        ELSE IF BusinessLineChecked(statements)
                /\ LooksLikeAssignment(statements[Len(statements)])
        THEN <<[Err("business", "trailing_assignment", line_num, None,
                    statements[Len(statements)], TRUE) EXCEPT !.arg = line]>>
        ELSE <<>>

_check_assignment_rules(expr) ==
    LET lines == SplitLines(expr)
    IN  Concat([i \in 1..Len(lines) |-> AssignmentRuleLine(lines[i], i)])

_check_expression_structure(expr) ==
    LET lines == SelectSeq(SplitLines(expr),
                     LAMBDA l : Strip(l) # <<>> /\ Strip(l)[1] # "#")
    IN  (IF Strip(expr) = <<>>
         THEN <<Err("business", "empty", None, None, <<>>, TRUE)>> ELSE <<>>)
        \o
        (IF lines = <<>>
         THEN <<Err("business", "no_lines", None, None, <<>>, TRUE)>>
         ELSE <<>>)

\* the errors BusinessRuleValidator.validate adds
BusinessErrs(expr) ==
    _check_assignment_rules(expr) \o _check_expression_structure(expr)

\* self.errors after BusinessRuleValidator.validate(expr)
BusinessRuleValidator_validate(errors, expr) ==
    clear(errors) \o BusinessErrs(expr)

(***************************************************************************)
(* The grammar parser.  grammar.lark is not among the sources; the lexer   *)
(* and the parser below follow the grammar of the specification (4.2),     *)
(* without the logical operators, whose tokens the specification does not  *)
(* give.  A token is [t, v, p]: terminal name, text, position in the text. *)
(***************************************************************************)
DigitsEnd(s, i) == Max({j \in i..Len(s) : \A k \in i..j : s[k] \in Digit})

IsDigitAt(s, i) == i <= Len(s) /\ s[i] \in Digit

\* last position of the number that starts at i: INT, INT "." INT?, "." INT
NumberEnd(s, i) ==
    IF s[i] = "." THEN DigitsEnd(s, i + 1)
    ELSE LET e == DigitsEnd(s, i)
         IN  IF e < Len(s) /\ s[e + 1] = "."
             THEN (IF IsDigitAt(s, e + 2) THEN DigitsEnd(s, e + 2) ELSE e + 1)
             ELSE e

PunctName ==
    ("(" :> "LPAR") @@ (")" :> "RPAR") @@ ("," :> "COMMA")
    @@ (";" :> "SEMICOLON") @@ ("+" :> "PLUS") @@ ("-" :> "MINUS")
    @@ ("*" :> "STAR") @@ ("/" :> "SLASH")

\* the token that starts at position i (i is not whitespace)
TokenAt(s, i) ==
    LET ch == s[i]
        two == IF i < Len(s) THEN <<ch, s[i + 1]>> ELSE <<ch>>
    IN  IF IsIdStart(ch) THEN [t |-> "CNAME", v |-> RunAt(s, i), p |-> i]
        ELSE IF ch \in Digit \/ (ch = "." /\ IsDigitAt(s, i + 1))
        THEN [t |-> "NUMBER", v |-> SubSeq(s, i, NumberEnd(s, i)), p |-> i]
        ELSE IF ch = QUOTE THEN
            (IF Find(s, QUOTE, i + 1) = 0 THEN [t |-> "BAD", v |-> <<ch>>, p |-> i]
             ELSE [t |-> "STRING", v |-> SubSeq(s, i, Find(s, QUOTE, i + 1)),
                   p |-> i])
        ELSE IF two \in {<<"=", "=">>, <<"!", "=">>, <<">", "=">>, <<"<", "=">>}
        THEN [t |-> "CMP", v |-> two, p |-> i]
        ELSE IF ch \in {">", "<"} THEN [t |-> "CMP", v |-> <<ch>>, p |-> i]
        ELSE IF ch = "=" THEN [t |-> "EQUAL", v |-> <<ch>>, p |-> i]
        ELSE IF ch \in DOMAIN PunctName
        THEN [t |-> PunctName[ch], v |-> <<ch>>, p |-> i]
        ELSE [t |-> "BAD", v |-> <<ch>>, p |-> i]

RECURSIVE Lex(_, _)
Lex(s, i) ==
    LET j == SkipSpace(s, i)
    IN  IF j > Len(s) THEN <<>>
        ELSE LET tok == TokenAt(s, j)
             IN  <<tok>> \o Lex(s, j + Len(tok.v))

Tokens(s) == Lex(s, 1)

\* terminal of the i-th token, "$END" after the last
Tok(toks, i) == IF i <= Len(toks) THEN toks[i].t ELSE "$END"

(***************************************************************************)
(* Syntax tree nodes are [k, v, ch]: rule name, the name or literal the    *)
(* node carries, children (operator tokens are kept in v or dropped).  rt  *)
(* and dict serve the values the tree walker puts in place of nodes.       *)
(***************************************************************************)
Node(k, v, ch) ==
    [k |-> k, v |-> v, ch |-> ch, rt |-> "none", dict |-> FALSE]
NoNode == Node("none", <<>>, <<>>)

POk(i, n) == [ok |-> TRUE, pos |-> i, node |-> n, exp |-> {}]
\* the parse fails at token i, where one of exp was expected
PFail(i, exp) == [ok |-> FALSE, pos |-> i, node |-> NoNode, exp |-> exp]

AtomStart == {"NUMBER", "STRING", "CNAME", "LPAR", "MINUS"}
BinaryOps == {"PLUS", "MINUS", "STAR", "SLASH", "CMP"}

RECURSIVE ParseExpr(_, _, _)
RECURSIVE ParseArgs(_, _, _)

\* the call of name whose argument list, begun at token i, gave a
CallOf(name, i, a) ==
    IF a.ok THEN POk(a.pos, Node("function", name, a.node.ch))
    ELSE IF a.pos = i THEN PFail(a.pos, a.exp \cup {"RPAR"})
    ELSE a

\* '(' expression ')' whose expression gave e
Closed(toks, e) ==
    IF ~e.ok THEN e
    ELSE IF Tok(toks, e.pos) = "RPAR" THEN POk(e.pos + 1, e.node)
    ELSE PFail(e.pos, e.exp)

\* atom := NUMBER | STRING | function_call | field_ref | '(' expression ')'
\* follow is what may come after the enclosing expression
ParseAtom(toks, i, follow) ==
    IF Tok(toks, i) \in {"NUMBER", "STRING"}
    THEN POk(i + 1, Node(IF Tok(toks, i) = "NUMBER" THEN "number" ELSE "string",
                         toks[i].v, <<>>))
    ELSE IF Tok(toks, i) = "CNAME" THEN
        IF Tok(toks, i + 1) = "LPAR" THEN
            IF Tok(toks, i + 2) = "RPAR"
            THEN POk(i + 3, Node("function", toks[i].v, <<>>))
            ELSE CallOf(toks[i].v, i + 2, ParseArgs(toks, i + 2, <<>>))
        ELSE POk(i + 1, Node("field", toks[i].v, <<>>))
    ELSE IF Tok(toks, i) = "LPAR"
    THEN Closed(toks, ParseExpr(toks, i + 1, {"RPAR"}))
    ELSE PFail(i, AtomStart)

\* the atom a that began at token i, after a '-' when minus
UnaryOf(minus, i, a) ==
    IF ~minus THEN a
    ELSE IF a.ok THEN POk(a.pos, Node("unary_expr", <<>>, <<a.node>>))
    ELSE IF a.pos = i THEN PFail(a.pos, AtomStart \ {"MINUS"})
    ELSE a

\* unary_expr := ('-')? atom
ParseUnary(toks, i, follow) ==
    UnaryOf(Tok(toks, i) = "MINUS",
            IF Tok(toks, i) = "MINUS" THEN i + 1 ELSE i,
            ParseAtom(toks, IF Tok(toks, i) = "MINUS" THEN i + 1 ELSE i, follow))

\* the node of a chain of operands: a lone operand stands for itself
Chain(rule, ch) == IF Len(ch) = 1 THEN ch[1] ELSE Node(rule, <<>>, ch)

RECURSIVE MulRest(_, _, _, _)
\* the operands ch so far, then the operand u
MulStep(toks, ch, follow, u) ==
    IF ~u.ok THEN u
    ELSE IF Tok(toks, u.pos) \in {"STAR", "SLASH"}
    THEN MulRest(toks, u.pos + 1, Append(ch, u.node), follow)
    ELSE POk(u.pos, Chain("mul_expr", Append(ch, u.node)))

\* mul_expr := unary_expr ( ('*'|'/') unary_expr )*, from the operand at i
MulRest(toks, i, ch, follow) ==
    MulStep(toks, ch, follow, ParseUnary(toks, i, follow))

ParseMul(toks, i, follow) == MulRest(toks, i, <<>>, follow)

RECURSIVE AddRest(_, _, _, _)
AddStep(toks, ch, follow, m) ==
    IF ~m.ok THEN m
    ELSE IF Tok(toks, m.pos) \in {"PLUS", "MINUS"}
    THEN AddRest(toks, m.pos + 1, Append(ch, m.node), follow)
    ELSE POk(m.pos, Chain("add_expr", Append(ch, m.node)))

\* add_expr := mul_expr ( ('+'|'-') mul_expr )*, from the operand at i
AddRest(toks, i, ch, follow) ==
    AddStep(toks, ch, follow, ParseMul(toks, i, follow))

ParseAdd(toks, i, follow) == AddRest(toks, i, <<>>, follow)

\* the rule a comparison operator gives its node
CompareRule(op) ==
    IF op = <<">">> THEN "greater"
    ELSE IF op = <<">", "=">> THEN "greater_eq"
    ELSE IF op = <<"<">> THEN "less"
    ELSE IF op = <<"<", "=">> THEN "less_eq"
    ELSE IF op = <<"=", "=">> THEN "eq"
    ELSE "neq"

\* what may follow a complete operand
AfterOperand(toks, i, follow, compared) ==
    follow \cup (BinaryOps \ (IF compared THEN {"CMP"} ELSE {}))
    \cup (IF i > 1 /\ Tok(toks, i - 1) = "CNAME" THEN {"LPAR"} ELSE {})

RECURSIVE ParseCompare(_, _, _, _)
\* the operand r, the right one of a comparison when l is a left operand
CompareStep(toks, follow, l, r) ==
    IF ~r.ok THEN r
    ELSE IF l.ok
    THEN [POk(r.pos, Node(CompareRule(toks[l.pos].v), <<>>,
                          <<l.node, r.node>>))
          EXCEPT !.exp = AfterOperand(toks, r.pos, follow, TRUE)]
    ELSE IF Tok(toks, r.pos) = "CMP"
    THEN ParseCompare(toks, r.pos + 1, follow, r)
    ELSE [r EXCEPT !.exp = AfterOperand(toks, r.pos, follow, FALSE)]

\* the operand at i; l is the left operand before it, if any
ParseCompare(toks, i, follow, l) ==
    CompareStep(toks, follow, l, ParseAdd(toks, i, follow))

\* comparison := add_expr ( ('>'|'>='|'<'|'<='|'=='|'!=') add_expr )?
\* on success exp holds what else could have followed the expression
ParseExpr(toks, i, follow) == ParseCompare(toks, i, follow, PFail(i, {}))

IsBinding(toks, i) == Tok(toks, i) = "CNAME" /\ Tok(toks, i + 1) = "EQUAL"

\* a CNAME alone at token i could also have begun a binding
Lone(toks, i, e) ==
    IF ~IsBinding(toks, i) /\ e.pos = i + 1 /\ Tok(toks, i) = "CNAME"
    THEN {"EQUAL"} ELSE {}

\* the argument at token i whose expression gave e
ArgOf(toks, i, e) ==
    IF IsBinding(toks, i) THEN Node("kwarg", toks[i].v, <<e.node>>) ELSE e.node

ArgStep(toks, i, acc, e) ==
    IF ~e.ok THEN e
    ELSE IF Tok(toks, e.pos) = "COMMA"
    THEN ParseArgs(toks, e.pos + 1, Append(acc, ArgOf(toks, i, e)))
    ELSE IF Tok(toks, e.pos) = "RPAR"
    THEN POk(e.pos + 1, Node("arguments", <<>>, Append(acc, ArgOf(toks, i, e))))
    ELSE PFail(e.pos, e.exp \cup Lone(toks, i, e))

\* arg_list := arg (',' arg)* ; arg := kwarg | expression
\* kwarg := IDENTIFIER '=' expression
ParseArgs(toks, i, acc) ==
    ArgStep(toks, i, acc,
            ParseExpr(toks, IF IsBinding(toks, i) THEN i + 2 ELSE i,
                      {"COMMA", "RPAR"}))

\* the statement at token i whose expression gave e
StatementOf(toks, i, e) ==
    IF ~e.ok THEN e
    ELSE [POk(e.pos, IF IsBinding(toks, i)
                     THEN Node("assignment_stmt", toks[i].v, <<e.node>>)
                     ELSE Node("expr_stmt", <<>>, <<e.node>>))
          EXCEPT !.exp = e.exp \cup Lone(toks, i, e)]

\* statement := assignment | expression ; assignment := IDENTIFIER '=' expression
ParseStatement(toks, i) ==
    StatementOf(toks, i,
                ParseExpr(toks, IF IsBinding(toks, i) THEN i + 2 ELSE i,
                          {"SEMICOLON", "$END"}))

RECURSIVE ParseProgram(_, _, _)
\* the statements after a ';' at token i - 1 gave rest
AfterSeparator(i, rest) ==
    IF ~rest.ok /\ rest.pos = i THEN PFail(rest.pos, rest.exp \cup {"$END"})
    ELSE rest

ProgramStep(toks, acc, st) ==
    IF ~st.ok THEN st
    ELSE IF Tok(toks, st.pos) = "$END"
    THEN POk(st.pos, Node("start", <<>>, Append(acc, st.node)))
    ELSE IF Tok(toks, st.pos) = "SEMICOLON"
    THEN (IF Tok(toks, st.pos + 1) = "$END"
          THEN POk(st.pos + 1, Node("start", <<>>, Append(acc, st.node)))
          ELSE AfterSeparator(st.pos + 1,
                              ParseProgram(toks, st.pos + 1,
                                           Append(acc, st.node))))
    ELSE PFail(st.pos, st.exp)

\* program := statement (';' statement)* ';'?
ParseProgram(toks, i, acc) == ProgramStep(toks, acc, ParseStatement(toks, i))

\* parser.parse(text): [ok, node] or [ok = FALSE, pos, exp]
Parse(text) == ParseProgram(Tokens(text), 1, <<>>)

Parses(text) == Parse(text).ok

(***************************************************************************)
(* SyntaxValidator.  A LarkError is kept as what its message holds: the    *)
(* position when the message gives one, the terminal of the unexpected     *)
(* token and the terminals of "Expected one of:".                          *)
(***************************************************************************)
LineOf(text, p) == 1 + Cardinality({i \in 1..p - 1 : text[i] = NL})

ColumnOf(text, p) == p - Max({0} \cup {i \in 1..p - 1 : text[i] = NL})

\* the exception parser.parse(text) raises when Parse(text) fails: the
\* unexpected token carries its own position, the end of input the position
\* of the last token (line 1, column 1 when there is none) and a character
\* no terminal matches gives a message without "at line .., column .."
\* (positioned is FALSE; line and column are the attributes of the exception)
\* that quotes the line of the character in place of the token
LarkErrorOf(text, toks, r, at) ==
    [positioned |-> Tok(toks, r.pos) # "BAD",
     line |-> IF at = 0 THEN 1 ELSE LineOf(text, at),
     column |-> IF at = 0 THEN 1 ELSE ColumnOf(text, at),
     token |-> Tok(toks, r.pos),
     expected |-> r.exp,
     paren |-> \/ Tok(toks, r.pos) # "BAD"
               \/ Contains(SplitOn(text, NL)[IF at = 0 THEN 1
                                             ELSE LineOf(text, at)], "(")]

\* the position in the text an error at token pos is reported at
ErrorAt(toks, pos) ==
    IF pos <= Len(toks) THEN toks[pos].p
    ELSE IF toks = <<>> THEN 0 ELSE toks[Len(toks)].p

LarkErrorAt(text, toks, r) == LarkErrorOf(text, toks, r, ErrorAt(toks, r.pos))

LarkErrorIn(text, toks) == LarkErrorAt(text, toks, ParseProgram(toks, 1, <<>>))

LarkError(text) == LarkErrorIn(text, Tokens(text))

\* _extract_error_position
_extract_error_position(e) ==
    IF e.positioned THEN <<e.line, e.column>> ELSE <<None, None>>

\* _get_error_message: the message always holds "Expected one of:" and
\* names its terminals; that of an unexpected token holds "(" as well
_get_error_message(e) ==
    IF "SEMICOLON" \in e.expected THEN "missing_separator"
    ELSE IF "CNAME" \in e.expected \cup {e.token} /\ e.paren
    THEN "malformed_call"
    ELSE IF "RPAR" \in e.expected \cup {e.token} THEN "bracket_mismatch"
    ELSE IF "EQUAL" \in e.expected \cup {e.token} THEN "malformed_assignment"
    ELSE "syntax"

\* the except branch of SyntaxValidator.validate for the error e
SyntaxErrOf(expr, e) ==
    IF Truthy(_extract_error_position(e)[1])
       /\ Truthy(_extract_error_position(e)[2])
    THEN (IF _extract_error_position(e)[1] <= Len(SplitLines(expr))
          THEN <<Err("syntax", _get_error_message(e),
                     _extract_error_position(e)[1],
                     _extract_error_position(e)[2],
                     SplitLines(expr)[_extract_error_position(e)[1]], TRUE)>>
          ELSE <<>>)
    ELSE <<Err("syntax", "syntax", None, None, <<>>, TRUE)>>

\* the error SyntaxValidator.validate adds, if any
SyntaxErrs(expr) ==
    IF Parses(expr) THEN <<>> ELSE SyntaxErrOf(expr, LarkError(expr))

\* self.errors after SyntaxValidator.validate(expr)
SyntaxValidator_validate(errors, expr) == clear(errors) \o SyntaxErrs(expr)

(***************************************************************************)
(* ExprValidator, the tree walker.  self is [errors, variables,            *)
(* variable_exprs, valid_field_names]; variables and variable_exprs are    *)
(* functions on the names bound so far.  A callback gives the value put in *)
(* place of the node and self after it.  The legacy walker                 *)
(* (validator/validator.py) is the same code up to the places marked       *)
(* legacy.                                                                 *)
(***************************************************************************)
Dict(type, name, return_type) ==
    [k |-> type, v |-> name, ch |-> <<>>, rt |-> return_type, dict |-> TRUE]

NoValue == Node("None", <<>>, <<>>)

NewWalker(valid_fields) ==
    [errors |-> <<>>, variables |-> [n \in {} |-> "unknown"],
     variable_exprs |-> [n \in {} |-> NoValue],
     valid_field_names |-> valid_fields]

SemErr(code, what, arg) == ErrArg("semantic", code, what, arg, FALSE)

DigitStr == <<"1", "2", "3", "4", "5", "6", "7", "8", "9">>

\* the spelling of the strings a dict holds besides its name
Spelled ==
    [function_call |-> <<"f", "u", "n", "c", "t", "i", "o", "n", "_", "c",
                         "a", "l", "l">>,
     variable |-> <<"v", "a", "r", "i", "a", "b", "l", "e">>,
     field |-> <<"f", "i", "e", "l", "d">>,
     boolean |-> <<"b", "o", "o", "l", "e", "a", "n">>,
     unknown |-> <<"u", "n", "k", "n", "o", "w", "n">>,
     expr |-> <<"e", "x", "p", "r">>,
     number |-> <<"n", "u", "m", "b", "e", "r">>,
     string |-> <<"s", "t", "r", "i", "n", "g">>]

\* expr.values() of a dict, in insertion order: type, name, return_type
DictValues(d) ==
    <<Spelled[d.k], d.v,
      IF d.rt \in DOMAIN Spelled THEN Spelled[d.rt] ELSE <<>> >>

\* _is_type_compatible for an expected type that is one kind
Compatible(expected, actual) ==
    \/ expected = actual
    \/ expected = "expr" /\ actual = "field"
    \/ expected = "boolean" /\ actual \in {"expr", "field", "number"}

\* _is_type_compatible; expected is the list of the accepted kinds
_is_type_compatible(expected, actual) ==
    \E i \in 1..Len(expected) : Compatible(expected[i], actual)

\* legacy: no kind but boolean is accepted where boolean is expected
legacy_Compatible(expected, actual) ==
    \/ expected = actual
    \/ expected = "expr" /\ actual = "field"

legacy_is_type_compatible(expected, actual) ==
    \E i \in 1..Len(expected) : legacy_Compatible(expected[i], actual)

Typed(t, visited) == [t |-> t, visited |-> visited]

FirstChildRules ==
    {"expr", "logic_or", "logic_and", "logic_not", "comparison", "unary_expr",
     "atom"}
CompareRules == {"greater", "greater_eq", "less", "less_eq", "eq", "neq"}

\* the type of an add_expr or mul_expr node from the types of its operands
ArithmeticType(left_type, right_type) ==
    IF left_type = "unknown" /\ right_type = "unknown" THEN "unknown"
    ELSE IF left_type \in {"expr", "field"} \/ right_type \in {"expr", "field"}
    THEN "expr"
    ELSE IF left_type = "number" /\ right_type = "number" THEN "number"
    ELSE "expr"

RECURSIVE _get_node_type(_, _, _, _)
RECURSIVE _resolve_variable_type(_, _, _, _)
RECURSIVE FirstKnownChild(_, _, _, _)
RECURSIVE FirstKnownValue(_, _, _, _)

\* "for child in expr.children": the first type that is not unknown
FirstKnownChild(self, children, visited, legacy) ==
    IF children = <<>> THEN Typed("unknown", visited)
    ELSE LET sub == _get_node_type(self, children[1], visited, legacy)
         IN  IF sub.t # "unknown" THEN sub
             ELSE FirstKnownChild(self, Tail(children), sub.visited, legacy)

\* "for v in expr.values()": a string that is a variable name is resolved,
\* any other string has type unknown
FirstKnownValue(self, values, visited, legacy) ==
    IF values = <<>> THEN Typed("unknown", visited)
    ELSE LET sub == IF values[1] \in DOMAIN self.variables
                    THEN _resolve_variable_type(self, values[1], visited, legacy)
                    ELSE Typed("unknown", visited)
         IN  IF sub.t # "unknown" THEN sub
             ELSE FirstKnownValue(self, Tail(values), sub.visited, legacy)

\* a resolution that answers number for a name met a second time
_resolve_variable_type_number(self, var_name, visited, legacy) ==
    IF var_name \in visited THEN Typed("number", visited)
    ELSE LET seen == visited \cup {var_name}
             t == IF var_name \in DOMAIN self.variables
                  THEN self.variables[var_name] ELSE "unknown"
         IN  IF t # "unknown" THEN Typed(t, seen)
             ELSE IF var_name \notin DOMAIN self.variable_exprs
             THEN Typed("unknown", seen)
             ELSE LET expr == self.variable_exprs[var_name]
                      et == _get_node_type(self, expr, seen, legacy)
                  IN  IF et.t # "unknown" THEN et
                      ELSE IF expr.dict
                      THEN FirstKnownValue(self, DictValues(expr), et.visited,
                                           legacy)
                      ELSE FirstKnownChild(self, expr.ch, et.visited, legacy)

\* visited is one set the whole walk shares and adds to: the result gives
\* the type and the set after the call
_resolve_variable_type(self, var_name, visited, legacy) ==
    IF var_name \in visited THEN Typed("unknown", visited)
    ELSE LET seen == visited \cup {var_name}
             t == IF var_name \in DOMAIN self.variables
                  THEN self.variables[var_name] ELSE "unknown"
         IN  IF t # "unknown" THEN Typed(t, seen)
             ELSE IF var_name \notin DOMAIN self.variable_exprs
             THEN Typed("unknown", seen)
             ELSE LET expr == self.variable_exprs[var_name]
                      et == _get_node_type(self, expr, seen, legacy)
                  IN  IF et.t # "unknown" THEN et
                      ELSE IF expr.dict
                      THEN FirstKnownValue(self, DictValues(expr), et.visited,
                                           legacy)
                      ELSE FirstKnownChild(self, expr.ch, et.visited, legacy)

\* nodes reach _get_node_type after their children were transformed, so a
\* name or a call is a dict here and never a token or a tree
_get_node_type(self, node, visited, legacy) ==
    IF node.dict THEN
        IF node.k = "function_call" THEN Typed(node.rt, visited)
        ELSE IF node.k = "field" THEN Typed("field", visited)
        ELSE IF node.k = "variable"
        THEN _resolve_variable_type(self, node.v, visited, legacy)
        ELSE IF legacy THEN Typed("unknown", visited)
        ELSE IF node.k = "boolean" THEN Typed("boolean", visited)
        ELSE Typed(node.rt, visited)
    ELSE IF node.k \in {"number", "string"} THEN Typed(node.k, visited)
    ELSE IF node.k \in FirstChildRules THEN
        IF node.ch # <<>>
        THEN _get_node_type(self, node.ch[1], visited, legacy)
        ELSE Typed("unknown", visited)
    ELSE IF node.k \in {"add_expr", "mul_expr"} THEN
        IF Len(node.ch) >= 2
        THEN LET left == _get_node_type(self, node.ch[1], visited, legacy)
                 right == _get_node_type(self, node.ch[2], left.visited, legacy)
             IN  Typed(ArithmeticType(left.t, right.t), right.visited)
        ELSE IF node.ch # <<>>
        THEN _get_node_type(self, node.ch[1], visited, legacy)
        ELSE Typed("unknown", visited)
    ELSE IF node.k \in CompareRules /\ ~legacy THEN Typed("boolean", visited)
    ELSE Typed("unknown", visited)

\* _get_node_type(node) with visited left to its default
NodeType(self, node, legacy) == _get_node_type(self, node, {}, legacy).t

AddError(self, e) == [self EXCEPT !.errors = Append(@, e)]
AddErrors(self, es) == [self EXCEPT !.errors = @ \o es]

Walked(val, self) == [val |-> val, self |-> self]

\* field(token); legacy: true and false are names like any other
field(self, field_name, legacy) ==
    IF ~legacy /\ field_name \in BoolWords
    THEN Walked(Dict("boolean", field_name, "boolean"), self)
    ELSE IF field_name \in DOMAIN self.variables
    THEN Walked(Dict("variable", field_name, self.variables[field_name]), self)
    ELSE IF field_name \in self.valid_field_names
    THEN Walked(Dict("field", field_name, "field"), self)
    ELSE Walked(Dict("field", field_name, "unknown"),
                AddError(self, SemErr("unknown_field", field_name, <<>>)))

\* an assignment_stmt that binds the name after it reported it
assignment_stmt_bound(self, var_name, value, legacy) ==
    [(IF var_name \in DOMAIN valid_ops
      THEN AddError(self, SemErr("operator_as_variable", var_name, <<>>))
      ELSE IF var_name \in self.valid_field_names
      THEN AddError(self, SemErr("field_as_variable", var_name, <<>>))
      ELSE self)
     EXCEPT !.variables = (var_name :> NodeType(self, value, legacy)) @@ @,
            !.variable_exprs = (var_name :> value) @@ @]

\* assignment_stmt(args) for args = [(var_name, value)]
assignment_stmt(self, var_name, value, legacy) ==
    IF var_name \in DOMAIN valid_ops
    THEN AddError(self, SemErr("operator_as_variable", var_name, <<>>))
    ELSE IF var_name \in self.valid_field_names
    THEN AddError(self, SemErr("field_as_variable", var_name, <<>>))
    ELSE [self EXCEPT
            !.variables = (var_name :> NodeType(self, value, legacy)) @@ @,
            !.variable_exprs = (var_name :> value) @@ @]

\* the arity test of function(): max_args is None when the signature has none
TreeTooMany(max_args, n) == max_args # None /\ n > max_args

ArityErrs(name, op, n) ==
    (IF n < op.min_args THEN <<SemErr("too_few", name, <<>>)>> ELSE <<>>)
    \o
    (IF TreeTooMany(op.max_args, n) THEN <<SemErr("too_many", name, <<>>)>>
     ELSE <<>>)

\* the type expected of the positional argument at 0-based index i, <<>>
\* when the argument is not checked; legacy: var_args_type is not read
ExpectedType(op, i, legacy) ==
    IF i < Len(op.arg_types) THEN op.arg_types[i + 1]
    ELSE IF ~legacy /\ op.var_args_type # <<>> THEN op.var_args_type
    ELSE IF Len(op.arg_types) > 0 THEN op.arg_types[Len(op.arg_types)]
    ELSE <<>>

TypeOk(expected, actual, legacy) ==
    IF legacy THEN legacy_is_type_compatible(expected, actual)
    ELSE _is_type_compatible(expected, actual)

PositionalErrs(self, name, op, pos_args, legacy) ==
    LET bad == {i \in 1..Len(pos_args) :
                   /\ ExpectedType(op, i - 1, legacy) # <<>>
                   /\ ~TypeOk(ExpectedType(op, i - 1, legacy),
                              NodeType(self, pos_args[i], legacy), legacy)}
        idx == SortedSeq(bad)
    IN  [j \in 1..Len(idx) |->
            SemErr("type_mismatch", name, <<DigitStr[idx[j]]>>)]

\* one iteration of "for node in kw_args"
KeywordErr(self, name, op, node, legacy) ==
    IF node.v \notin DOMAIN op.kwarg_types
    THEN <<SemErr("bad_kwarg", name, node.v)>>
    ELSE IF /\ op.kwarg_types[node.v] # <<>>
            /\ ~TypeOk(op.kwarg_types[node.v],
                       NodeType(self, node.ch[1], legacy), legacy)
    THEN <<SemErr("kwarg_type", name, node.v)>>
    ELSE <<>>

\* str(value_node).strip('"') of a string literal
Unquoted(v) == SelectSeq(v, LAMBDA ch : ch # QUOTE)

\* one iteration of the loop over the keyword arguments for op["choices"]
ChoiceErr(name, op, node) ==
    IF /\ node.v \in DOMAIN op.choices
       /\ ~(node.ch[1].k = "string"
            /\ Unquoted(node.ch[1].v) \in op.choices[node.v])
    THEN <<SemErr("bad_choice", name, node.v)>>
    ELSE <<>>

\* function(args) for args = [name, arguments]: arg_nodes are the
\* transformed children of the argument list
function(self, name, arg_nodes, legacy) ==
    IF name \notin DOMAIN valid_ops
    THEN Walked(Dict("function_call", name, "unknown"),
                AddError(self, SemErr("unknown_operator", name, <<>>)))
    ELSE
    LET op == valid_ops[name]
        IsKw(node) == ~node.dict /\ node.k = "kwarg"
        kw_args == SelectSeq(arg_nodes, IsKw)
        pos_args == SelectSeq(arg_nodes, LAMBDA node : ~IsKw(node))
    IN  Walked(Dict("function_call", name, op.return_type),
               AddErrors(self,
                   ArityErrs(name, op, Len(pos_args))
                   \o PositionalErrs(self, name, op, pos_args, legacy)
                   \o Concat([i \in 1..Len(kw_args) |->
                                 KeywordErr(self, name, op, kw_args[i], legacy)])
                   \o Concat([i \in 1..Len(kw_args) |->
                                 ChoiceErr(name, op, kw_args[i])])))

RECURSIVE transform(_, _, _)
RECURSIVE TransformChildren(_, _, _, _)

\* _transform_children: the children in order, each with the walker the
\* one before it left
TransformChildren(self, children, done, legacy) ==
    IF children = <<>> THEN [vals |-> done, self |-> self]
    ELSE LET w == transform(self, children[1], legacy)
         IN  TransformChildren(w.self, Tail(children), Append(done, w.val),
                               legacy)

\* Transformer.transform: bottom-up, the callback of a node after those of
\* its children; a rule with no callback keeps its node
transform(self, tree, legacy) ==
    IF tree.k = "field" THEN field(self, tree.v, legacy)
    ELSE LET c == TransformChildren(self, tree.ch, <<>>, legacy)
         IN  IF tree.k = "function"
             THEN function(c.self, tree.v, c.vals, legacy)
             ELSE IF tree.k = "assignment_stmt"
             THEN Walked(NoValue,
                         assignment_stmt(c.self, tree.v, c.vals[1], legacy))
             ELSE IF tree.k = "expr_stmt" THEN Walked(NoValue, c.self)
             ELSE Walked([tree EXCEPT !.ch = c.vals], c.self)

\* validator.errors after ExprValidator(valid_fields).transform(tree)
WalkErrs(valid_fields, tree, legacy) ==
    transform(NewWalker(valid_fields), tree, legacy).self.errors

(***************************************************************************)
(* The legacy ExpressionValidator (validator/validator.py).  Its           *)
(* diagnostics are strings; a message together with the source line and    *)
(* the marker line that follow it is kept as one record.                   *)
(***************************************************************************)
NonSpaceEnd(s, i) == Max({j \in i..Len(s) : \A k \in i..j : s[k] \notin Space})

\* equal_pattern r"(\S+)\s*=\s*(\S.*)" tried at start: the lengths group 1
\* can have; after the "=" some character that is not a space must follow
EqualLengths(s, start) ==
    LET e == NonSpaceEnd(s, start)
        EqAt(k) == IF start + k - 1 = e THEN SkipSpace(s, e + 1) ELSE start + k
    IN  {k \in 1..(e - start + 1) :
            /\ EqAt(k) <= Len(s) /\ s[EqAt(k)] = "="
            /\ SkipSpace(s, EqAt(k) + 1) <= Len(s)}

\* the match of equal_pattern in a line (it runs to the end of the line, so
\* there is at most one): leftmost start, longest group 1
EqualMatch(s) ==
    LET starts == {i \in 1..Len(s) :
                      s[i] \notin Space /\ EqualLengths(s, i) # {}}
    IN  IF starts = {} THEN [found |-> FALSE, start |-> 0, left |-> <<>>,
                             right |-> <<>>]
        ELSE LET start == Min(starts)
                 k == Max(EqualLengths(s, start))
                 eq == IF start + k - 1 = NonSpaceEnd(s, start)
                       THEN SkipSpace(s, start + k) ELSE start + k
             IN  [found |-> TRUE, start |-> start,
                  left |-> SubSeq(s, start, start + k - 1),
                  right |-> Strip(Drop(s, eq))]

\* ^\([a-zA-Z_][a-zA-Z0-9_]*\s*\(
ParenCallPrefix(s) ==
    /\ Len(s) >= 3 /\ s[1] = "(" /\ IsIdStart(s[2])
    /\ LET p == SkipSpace(s, RunEnd(s, 2) + 1)
       IN  p <= Len(s) /\ s[p] = "("

\* check 6 of _check_chinese_characters on one line: the error that makes
\* the method return at once, if any
AssignmentCharErrs(code_part, line_num) ==
    LET m == EqualMatch(code_part)
        equal_pos == Find(code_part, "=", m.start)
        illegal == {i \in m.start..equal_pos - 1 :
                       ~IsWord(code_part[i]) /\ code_part[i] \notin Space}
    IN  IF ~m.found THEN <<>>
        ELSE IF ~IsIdentifier(m.left) /\ illegal # {}
        THEN <<Err("lexical", "assignment_char", line_num, Min(illegal),
                   <<code_part[Min(illegal)]>>, FALSE)>>
        ELSE IF /\ m.right[1] = "("
                /\ ~ParenCallPrefix(m.right)
                /\ \A i \in 1..Len(m.right) : m.right[i] \notin OpChar
        THEN <<Err("lexical", "assignment_paren", line_num,
                   Find(code_part, "(", equal_pos), <<>>, FALSE)>>
        ELSE <<>>

\* one iteration of the loop over the lines: the errors and whether the
\* method returns inside the iteration
legacy_CodeErrs(code_part, line_num, before, stop) ==
    IF stop # <<>> THEN [errs |-> before \o stop, return |-> TRUE]
    ELSE [errs |-> before \o _validate_brackets(code_part, line_num),
          return |-> FALSE]

\* the checks of one iteration on the code part of its line
legacy_PartErrs(code_part, line_num) ==
    legacy_CodeErrs(code_part, line_num,
                    _validate_characters(code_part, line_num)
                    \o DoubleUnderscoreErrs(code_part, line_num)
                    \o DigitStartErrs(code_part, line_num)
                    \o _validate_numbers(code_part, line_num)
                    \o _validate_strings(code_part, line_num)
                    \o _validate_operators(code_part, line_num),
                    AssignmentCharErrs(code_part, line_num))

\* an empty line or a comment line is skipped
legacy_LineErrs(raw, line_num) ==
    IF RStrip(raw) = <<>> \/ Strip(RStrip(raw))[1] = "#"
    THEN [errs |-> <<>>, return |-> FALSE]
    ELSE legacy_PartErrs(CutLineComment(RStrip(raw)), line_num)

RECURSIVE legacy_ScanLines(_, _)
\* the errors from line i on, r being what the iteration on line i gave
legacy_ScanFrom(lines, i, r) ==
    r.errs \o (IF r.return THEN <<>> ELSE legacy_ScanLines(lines, i + 1))

legacy_ScanLines(lines, i) ==
    IF i > Len(lines) THEN <<>>
    ELSE legacy_ScanFrom(lines, i, legacy_LineErrs(lines[i], i))

_check_chinese_characters(expr) ==
    legacy_ScanLines(SplitLines(StripBlockComments(expr)), 1)

\* what a validate call gave: a returned (is_valid, messages) pair, or an
\* exception that left the call
NotCalled == [status |-> "none", valid |-> FALSE, msgs |-> <<>>]
Returned(valid, msgs) == [status |-> "returned", valid |-> valid, msgs |-> msgs]
Raised == [status |-> "raised", valid |-> FALSE, msgs |-> <<>>]

\* filtered_lines of validate: the lines that are neither blank nor comments
legacy_filtered_lines(expr) ==
    SelectSeq(SplitLines(expr),
              LAMBDA l : Strip(l) # <<>> /\ Strip(l)[1] # "#")

\* all_statements, without the line indexes
legacy_all_statements(filtered_lines) ==
    Concat([i \in 1..Len(filtered_lines) |-> Statements(filtered_lines[i])])

\* the except branch of validate for the LarkError e
legacy_SyntaxErr(filtered_expr, e) ==
    IF Truthy(e.line) /\ Truthy(e.column)
       /\ e.line <= Len(SplitLines(filtered_expr))
    THEN Err("syntax", _get_error_message(e), e.line, e.column,
             SplitLines(filtered_expr)[e.line], FALSE)
    ELSE Err("syntax", "syntax", None, None, <<>>, FALSE)

\* the end of validate: errors is validator.errors after the transform
legacy_Walked(errors) ==
    IF errors # <<>> THEN Returned(FALSE, errors) ELSE Returned(TRUE, <<>>)

\* the try block of validate: r is what parser.parse(filtered_expr) gave
legacy_Parsed(valid_fields, filtered_expr, toks, r) ==
    IF ~r.ok
    THEN Returned(FALSE, <<legacy_SyntaxErr(filtered_expr,
                                            LarkErrorAt(filtered_expr, toks, r))>>)
    ELSE legacy_Walked(WalkErrs(valid_fields, r.node, TRUE))

legacy_Try(valid_fields, filtered_expr, toks) ==
    legacy_Parsed(valid_fields, filtered_expr, toks, ParseProgram(toks, 1, <<>>))

\* validate after all_statements is built.  all_statements[-1] is read
\* outside the try block: on an empty list the IndexError leaves the call
legacy_Statements(valid_fields, filtered_lines, filtered_expr, all_statements) ==
    IF filtered_lines # <<>> /\ all_statements = <<>> THEN Raised
    ELSE IF /\ filtered_lines # <<>>
            /\ LooksLikeAssignment(all_statements[Len(all_statements)])
    THEN Returned(FALSE, <<Err("business", "trailing_assignment", None, None,
                               all_statements[Len(all_statements)], FALSE)>>)
    ELSE legacy_Try(valid_fields, filtered_expr, Tokens(filtered_expr))

\* validate after filtered_lines is built
legacy_Lines(valid_fields, filtered_lines) ==
    legacy_Statements(valid_fields, filtered_lines,
                      StripBlockComments(JoinLines(filtered_lines)),
                      legacy_all_statements(filtered_lines))

\* validate after _check_chinese_characters gave chinese_errors
legacy_Checked(valid_fields, expr, chinese_errors) ==
    IF chinese_errors # <<>> THEN Returned(FALSE, chinese_errors)
    ELSE legacy_Lines(valid_fields, legacy_filtered_lines(expr))

\* ExpressionValidator.validate of validator/validator.py
legacy_validate(valid_fields, expr) ==
    legacy_Checked(valid_fields, expr, _check_chinese_characters(expr))

(***************************************************************************)
(* ExpressionValidator.validate of wqb_validator/validator.py.  The        *)
(* instance holds five sub-validators, each with its own errors list, which*)
(* its validate clears, fills and returns (the list itself, not a copy).   *)
(* A call is [pc, expr, filtered_expr, all_errors, result].                *)
(***************************************************************************)
Validators ==
    {"character_validator", "syntax_validator", "operator_validator",
     "data_field_validator", "business_validator"}

\* the lists of a newly built instance
NewErrors == [v \in Validators |-> <<>>]

\* the steps of validate in order: what is done, on which sub-validator
Program ==
    <<<<"filter", "">>,
      <<"clear", "character_validator">>, <<"scan", "character_validator">>,
      <<"extend", "character_validator">>,
      <<"identifiers", "character_validator">>,
      <<"extend", "character_validator">>,
      <<"clear", "syntax_validator">>, <<"scan", "syntax_validator">>,
      <<"extend", "syntax_validator">>,
      <<"clear", "operator_validator">>, <<"scan", "operator_validator">>,
      <<"extend", "operator_validator">>,
      <<"clear", "data_field_validator">>, <<"scan", "data_field_validator">>,
      <<"extend", "data_field_validator">>,
      <<"clear", "business_validator">>, <<"scan", "business_validator">>,
      <<"extend", "business_validator">>,
      <<"render", "">> >>

NewCall(expr) ==
    [pc |-> 1, expr |-> expr, filtered_expr |-> <<>>, all_errors |-> <<>>,
     result |-> NotCalled]

Done(call) == call.pc > Len(Program)

\* the errors the validate of sub-validator v adds after its clear()
Scan(v, valid_fields, expr) ==
    IF v = "character_validator" THEN CharacterErrs(expr)
    ELSE IF v = "syntax_validator" THEN SyntaxErrs(expr)
    ELSE IF v = "operator_validator" THEN OperatorErrs(valid_ops, expr)
    ELSE IF v = "data_field_validator" THEN FieldErrs(valid_fields, expr)
    ELSE BusinessErrs(expr)

\* the string built for one error: the position is given when line and
\* column are both truthy, the suggestion when there is one; the code line
\* of the error is not part of the string
Render(error) ==
    LET positioned == Truthy(error.line) /\ Truthy(error.col)
    IN  [error EXCEPT !.line = IF positioned THEN @ ELSE None,
                      !.col = IF positioned THEN @ ELSE None]

\* the end of validate
ValidateResult(all_errors) ==
    IF all_errors # <<>>
    THEN Returned(FALSE, [i \in 1..Len(all_errors) |-> Render(all_errors[i])])
    ELSE Returned(TRUE, <<>>)

\* one step of a validate call on the instance whose lists are errors
validate_step(errors, valid_fields, call) ==
    LET do == Program[call.pc][1]
        v == Program[call.pc][2]
        next == [call EXCEPT !.pc = @ + 1]
    IN  IF do = "filter"
        THEN [errors |-> errors,
              call |-> [next EXCEPT !.filtered_expr = filter_comments(call.expr)]]
        ELSE IF do = "clear"
        THEN [errors |-> [errors EXCEPT ![v] = clear(@)], call |-> next]
        ELSE IF do = "scan"
        THEN [errors |-> [errors EXCEPT
                            ![v] = @ \o Scan(v, valid_fields,
                                             call.filtered_expr)],
              call |-> next]
        ELSE IF do = "identifiers"
        THEN [errors |-> [errors EXCEPT
                            ![v] = _validate_identifiers(@, call.filtered_expr,
                                                         0)],
              call |-> next]
        ELSE IF do = "extend"
        THEN [errors |-> errors,
              call |-> [next EXCEPT !.all_errors = @ \o errors[v]]]
        ELSE [errors |-> errors,
              call |-> [next EXCEPT !.result = ValidateResult(call.all_errors)]]

RECURSIVE RunValidate(_, _)
\* the steps of a call to its end; s holds the lists and the call
RunValidate(valid_fields, s) ==
    IF Done(s.call) THEN s
    ELSE RunValidate(valid_fields,
                     validate_step(s.errors, valid_fields, s.call))

\* the lists and the result at the end of a call
Outcome(end) == [errors |-> end.errors, result |-> end.call.result]

\* a whole validate(expr) call that no other call interleaves with: the
\* lists it leaves in the instance and its result
ExpressionValidator_validate(errors, valid_fields, expr) ==
    Outcome(RunValidate(valid_fields,
                        [errors |-> errors, call |-> NewCall(expr)]))

(***************************************************************************)
(* ExpressionValidator.__init__.  data_fields_dict is kept as the set of   *)
(* its keys; a key is region_delay_universe, the suffix of the name of the *)
(* file data_fields_<region>_<delay>_<universe>.json the fields came from. *)
(***************************************************************************)
\* f"{region}_{delay}_{universe}"
combination_key(region, delay, universe) ==
    region \o <<"_">> \o delay \o <<"_">> \o universe

\* the characters of the keys in the order str comparison gives them
CodeOrder == <<"0", "1", "E", "M", "T", "U", "_">>

CodeOf(ch) == CHOOSE i \in 1..Len(CodeOrder) : CodeOrder[i] = ch

\* a < b for two str
StrLess(a, b) ==
    \E i \in 1..Min({Len(a), Len(b)}) + 1 :
        /\ Take(a, i - 1) = Take(b, i - 1)
        /\ \/ i > Len(a) /\ i <= Len(b)
           \/ i <= Len(a) /\ i <= Len(b) /\ CodeOf(a[i]) < CodeOf(b[i])

RECURSIVE SortedKeys(_)
\* available_keys after list(data_fields_dict.keys()) and sort()
SortedKeys(keys) ==
    IF keys = {} THEN <<>>
    ELSE LET first == CHOOSE k \in keys : \A o \in keys \ {k} : StrLess(k, o)
         IN  <<first>> \o SortedKeys(keys \ {first})

RECURSIVE JoinParts(_)
\* "_".join(parts)
JoinParts(parts) ==
    IF parts = <<>> THEN <<>>
    ELSE IF Len(parts) = 1 THEN parts[1]
    ELSE parts[1] \o <<"_">> \o JoinParts(Tail(parts))

\* u of the first parts only: a universe cut at its first "_"
KeyConfig_cut(parts) == parts[2] \o <<"/">> \o parts[3]

\* f"{d}/{u}" for d = parts[1] and u = "_".join(parts[2:])
KeyConfig(parts) == parts[2] \o <<"/">> \o JoinParts(Drop(parts, 2))

\* regions[r].append(config): regions is kept as the list of its items in
\* insertion order
AddConfig(regions, r, config) ==
    IF \E i \in DOMAIN regions : regions[i].region = r
    THEN [i \in DOMAIN regions |->
             IF regions[i].region = r
             THEN [regions[i] EXCEPT !.configs = Append(@, config)]
             ELSE regions[i]]
    ELSE Append(regions, [region |-> r, configs |-> <<config>>])

RECURSIVE GroupByRegion(_, _)
\* the loop over available_keys
GroupByRegion(available_keys, regions) ==
    IF available_keys = <<>> THEN regions
    ELSE LET parts == SplitOn(Head(available_keys), "_")
         IN  GroupByRegion(Tail(available_keys),
                           IF Len(parts) >= 3
                           THEN AddConfig(regions, parts[1], KeyConfig(parts))
                           ELSE regions)

\* error_msg: the key asked for, then one line for each item of regions
NoMessage == [key |-> <<>>, regions |-> <<>>]

InvalidCombination(data_fields_dict, key) ==
    [key |-> key, regions |-> GroupByRegion(SortedKeys(data_fields_dict), <<>>)]

NotBuilt == [status |-> "none", sub_validators |-> FALSE, message |-> NoMessage]

\* __init__ of wqb_validator: the five sub-validators are made after the
\* test of the key
ExpressionValidator_init(data_fields_dict, region, delay, universe) ==
    LET key == combination_key(region, delay, universe)
    IN  IF key \notin data_fields_dict
        THEN [status |-> "raised", sub_validators |-> FALSE,
              message |-> InvalidCombination(data_fields_dict, key)]
        ELSE [status |-> "built", sub_validators |-> TRUE,
              message |-> NoMessage]

\* __init__ of validator/validator.py: the same test; the instance has no
\* sub-validators
legacy_init(data_fields_dict, region, delay, universe) ==
    LET key == combination_key(region, delay, universe)
    IN  IF key \notin data_fields_dict
        THEN [status |-> "raised", sub_validators |-> FALSE,
              message |-> InvalidCombination(data_fields_dict, key)]
        ELSE [status |-> "built", sub_validators |-> FALSE,
              message |-> NoMessage]

(***************************************************************************)
(* The state: one ExpressionValidator instance and the calls made on it.   *)
(***************************************************************************)
VARIABLES
    expr,       \* the text handed to validate
    errors,     \* the errors lists of the sub-validators of the instance
    result,     \* what wqb_validator's validate gave for expr
    legacy,     \* what the legacy validate gave for expr
    before,     \* the errors lists when the last call began
    ncalls,     \* the calls made on the instance so far
    threads,    \* the validate calls in progress, one for each thread
    catalog,    \* data_fields_dict: the keys of the field catalog
    request,    \* the region, delay and universe given to the constructor
    built,      \* what the constructor gave
    arity,      \* one call of an operator and what each arity check said
    compat,     \* one call of _is_type_compatible and what it gave
    walker,     \* an ExprValidator part-way through the statements of expr
    infer,      \* one binary node handed to _get_node_type and what it gave
    fetch,      \* one call of make_request_with_retry, GET after GET
    session,    \* fetch_data's global s and what the calls of login gave
    main        \* the frames of main.py's handle_data_fields and the files

vars ==
    <<expr, errors, result, legacy, before, ncalls, threads, catalog, request,
      built, arity, compat, walker, infer, fetch, session, main>>

\* Texts are made of at most MaxWords pieces of Phrases
MaxWords == 3

Phrases ==
    {<<"c">>, <<"x">>, <<"1">>, <<QUOTE, "1", QUOTE>>, <<"f", "(">>,
     <<"g", "(">>, <<"x", "(">>, <<"x", "(", ")">>, <<")">>, <<",">>,
     <<";">>, <<"=">>, <<"_">>, <<NL>>, <<" ">>, <<"c", "=", "1", ";">>,
     <<"x", "=", "c", ";">>, <<"c", ",", "1">>, <<"k", "=">>, <<"*">>}

WordLists(words, n) == UNION {[1..k -> words] : k \in 0..n}
Texts(words, n) == {Concat(ws) : ws \in WordLists(words, n)}

NoThreads == [t \in {} |-> NewCall(<<>>)]
NoRequest == [region |-> <<>>, delay |-> <<>>, universe |-> <<>>]
NotChecked == [done |-> FALSE, errors |-> <<>>]
NoArity == [name |-> <<>>, n |-> 0, text |-> NotChecked, tree |-> NotChecked]
NoCompat == [expected |-> <<>>, actual |-> "none", wqb |-> "none",
             legacy |-> "none"]
NoWalk == [self |-> NewWalker({}), next |-> 1, legacy |-> FALSE]

NoInfer == [rule |-> "none", left |-> "none", right |-> "none",
            wqb |-> "none", legacy |-> "none"]
NoFetch == [max_retries |-> 0, attempt |-> 0, outcomes |-> <<>>,
            end |-> "none", returned |-> 0]
NoSession == [s |-> "None", posts |-> <<>>, returned |-> <<>>,
              legacy |-> FALSE]
NoMain == [frames |-> <<>>, data_fields_json |-> FALSE, combinations |-> 0,
           grouped |-> 0, end |-> "none"]

\* no request, no login and no run of main.py under way
Offline ==
    infer = NoInfer /\ fetch = NoFetch /\ session = NoSession /\ main = NoMain

\* no type test and no walk under way
Idle == compat = NoCompat /\ walker = NoWalk /\ Offline

\* an instance built for the catalog key of valid_field_names, no call made
Instance ==
    /\ errors = NewErrors
    /\ result = NotCalled
    /\ legacy = NotCalled
    /\ before = NewErrors
    /\ ncalls = 0
    /\ threads = NoThreads
    /\ catalog = {}
    /\ request = NoRequest
    /\ built = [status |-> "built", sub_validators |-> TRUE,
                message |-> NoMessage]
    /\ arity = NoArity
    /\ Idle

(***************************************************************************)
(* Spec: one text, validated by either validator on a new instance.        *)
(***************************************************************************)
Init ==
    /\ expr \in Texts(Phrases, MaxWords)
    /\ Instance

\* validator.validate(expr) of wqb_validator
Validate ==
    /\ result.status = "none"
    /\ LET r == ExpressionValidator_validate(errors, valid_field_names, expr)
       IN  /\ errors' = r.errors
           /\ result' = r.result
    /\ before' = errors
    /\ ncalls' = ncalls + 1
    /\ UNCHANGED <<expr, legacy, threads, catalog, request, built, arity,
                   compat, walker,
                   infer, fetch, session, main>>

\* validator.validate(expr) of the legacy validator
LegacyValidate ==
    /\ legacy.status = "none"
    /\ legacy' = legacy_validate(valid_field_names, expr)
    /\ UNCHANGED <<expr, errors, result, before, ncalls, threads, catalog,
                   request, built, arity, compat, walker,
                   infer, fetch, session, main>>

Next == Validate \/ LegacyValidate

Spec == Init /\ [][Next]_vars

(***************************************************************************)
(* Properties of one validate call (Spec).                                 *)
(***************************************************************************)
\* the text the sub-validators of wqb_validator read, and its syntax tree
Code == filter_comments(expr)
Tree == Parse(Code).node

Codes(errs) == {errs[i].code : i \in DOMAIN errs}
Sources(errs) == {errs[i].src : i \in DOMAIN errs}

\* the targets of the assignment statements of a program
AssignedNames(tree) ==
    {tree.ch[i].v : i \in {j \in DOMAIN tree.ch :
                              tree.ch[j].k = "assignment_stmt"}}

RECURSIVE CalledNames(_)
\* the names of the calls anywhere in a tree
CalledNames(tree) ==
    (IF tree.k = "function" THEN {tree.v} ELSE {})
    \cup UNION {CalledNames(tree.ch[i]) : i \in DOMAIN tree.ch}

\* what the tree walker of wqb_validator finds in the tree of the text
Semantic == WalkErrs(valid_field_names, Tree, FALSE)

\* C1: every validate call returns a pair (is_valid, diagnostics) in which
\* is_valid is true exactly when the diagnostics list is empty; no call
\* ends any other way
C1_ValidIffNoDiagnostics ==
    /\ result.status # "none" =>
          result.status = "returned" /\ (result.valid <=> result.msgs = <<>>)
    /\ legacy.status # "none" =>
          legacy.status = "returned" /\ (legacy.valid <=> legacy.msgs = <<>>)

\* C2: a script with an assignment whose target is a name of the field
\* catalog is invalid, and one of its diagnostics says that a field name
\* cannot be used as a variable name
C2_FieldAsVariableRejected ==
    (/\ result.status # "none"
     /\ Parses(Code)
     /\ AssignedNames(Tree) \cap valid_field_names # {})
    => /\ result.status = "returned"
       /\ ~result.valid
       /\ "field_as_variable" \in Codes(result.msgs)

RECURSIVE MistypedString(_)
\* somewhere in the tree a call of a known operator has a legal number of
\* positional arguments, one of them a string literal at a position where
\* the signature expects kinds that string is not one of
MistypedString(tree) ==
    \/ /\ tree.k = "function"
       /\ tree.v \in DOMAIN valid_ops
       /\ LET op == valid_ops[tree.v]
              pos == SelectSeq(tree.ch, LAMBDA a : a.k # "kwarg")
          IN  /\ Len(pos) >= op.min_args
              /\ op.max_args = None \/ Len(pos) <= op.max_args
              /\ \E i \in DOMAIN pos :
                    LET expected == ExpectedType(op, i - 1, FALSE)
                    IN  /\ pos[i].k = "string"
                        /\ expected # <<>>
                        /\ \A j \in DOMAIN expected : expected[j] # "string"
    \/ \E i \in DOMAIN tree.ch : MistypedString(tree.ch[i])

\* C3: when a call of a known operator with a legal number of positional
\* arguments has a positional argument whose type does not fit the
\* signature (a string literal where no string is expected), the text is
\* invalid with a type-mismatch diagnostic
C3_TypeMismatchRejected ==
    (/\ result.status # "none"
     /\ Parses(Code)
     /\ MistypedString(Tree))
    => /\ result.status = "returned"
       /\ ~result.valid
       /\ "type_mismatch" \in Codes(result.msgs)

\* C5: a call of a name that is not in the operator catalog makes the text
\* invalid with an unknown-operator diagnostic that names it, and no arity,
\* type, keyword or choice diagnostic names it
C5_UnknownOperatorRejected ==
    (result.status # "none" /\ Parses(Code))
    => \A name \in CalledNames(Tree) \ DOMAIN valid_ops :
          /\ result.status = "returned"
          /\ ~result.valid
          /\ \E i \in DOMAIN result.msgs :
                /\ result.msgs[i].code = "unknown_operator"
                /\ result.msgs[i].what = name
          /\ \A i \in DOMAIN result.msgs :
                result.msgs[i].what = name =>
                   result.msgs[i].code \notin
                       {"too_few", "too_many", "type_mismatch", "bad_kwarg",
                        "kwarg_type", "bad_choice"}

\* the diagnostics that only the tree walker gives: no text based
\* sub-validator has a check for them
WalkerOnly == {"field_as_variable", "operator_as_variable", "bad_choice"}

\* C6: for a text the parser accepts every validator runs and the list
\* returned holds the diagnostics of each: those of the tree walker are in
\* it whatever the other validators found
C6_AllValidatorsReport ==
    /\ (result.status # "none" /\ Parses(Code))
       => Codes(Semantic) \cap WalkerOnly \subseteq Codes(result.msgs)
    /\ (legacy.status = "returned"
        /\ Parses(StripBlockComments(JoinLines(legacy_filtered_lines(expr)))))
       => Codes(WalkErrs(valid_field_names,
                         Parse(StripBlockComments(
                                   JoinLines(legacy_filtered_lines(expr)))).node,
                         TRUE))
          \subseteq Codes(legacy.msgs)

\* C7: for a text the parser rejects the list returned has no business-rule
\* and no semantic diagnostic, and has the diagnostics of the lexical
\* validator
C7_RejectedSkipsBusinessRules ==
    (result.status # "none" /\ Strip(Code) # <<>> /\ ~Parses(Code))
    => /\ result.status = "returned"
       /\ Sources(result.msgs) \cap {"business", "semantic"} = {}
       /\ Codes(CharacterErrs(Code)) \subseteq Codes(result.msgs)

(***************************************************************************)
(* SpecArity: one call of an operator whose signature sets max_args, with  *)
(* n positional arguments and possibly a keyword argument, given to the    *)
(* arity check of OperatorValidator and to that of ExprValidator.          *)
(***************************************************************************)
MaxArgs == 4

\* the operators whose signature sets max_args, with 0 <= min_args <= max_args
BoundedOps ==
    {name \in DOMAIN valid_ops :
        /\ valid_ops[name].max_args # None
        /\ 0 <= valid_ops[name].min_args
        /\ valid_ops[name].min_args <= valid_ops[name].max_args}

\* name(a,a,...,a) with n arguments a, followed by k=a when kw
CallText(name, a, n, kw) ==
    LET args == [i \in 1..n |-> a] \o (IF kw THEN <<<<"k", "=">> \o a>> ELSE <<>>)
        commas == [i \in 1..Len(args) |->
                      IF i = 1 THEN args[i] ELSE <<",">> \o args[i]]
    IN  name \o <<"(">> \o Concat(commas) \o <<")">>

ArityInit ==
    /\ \E name \in BoundedOps, a \in {<<"1">>, <<"c">>}, n \in 0..MaxArgs,
          kw \in BOOLEAN :
          /\ expr = CallText(name, a, n, kw)
          /\ arity = [NoArity EXCEPT !.name = name, !.n = n]
    /\ errors = NewErrors
    /\ result = NotCalled
    /\ legacy = NotCalled
    /\ before = NewErrors
    /\ ncalls = 0
    /\ threads = NoThreads
    /\ catalog = {}
    /\ request = NoRequest
    /\ built = [status |-> "built", sub_validators |-> TRUE,
                message |-> NoMessage]
    /\ Idle

\* OperatorValidator._validate_function_call on the call extracted from expr
TextCheck ==
    /\ ~arity.text.done
    /\ arity' = [arity EXCEPT
                    !.text = [done |-> TRUE,
                              errors |-> _validate_function_call(
                                             valid_ops,
                                             _extract_function_calls(expr)[1])]]
    /\ UNCHANGED <<expr, errors, result, legacy, before, ncalls, threads,
                   catalog, request, built, compat, walker,
                   infer, fetch, session, main>>

\* ExprValidator.function on the tree of expr
TreeCheck ==
    /\ ~arity.tree.done
    /\ arity' = [arity EXCEPT
                    !.tree = [done |-> TRUE,
                              errors |-> WalkErrs(valid_field_names,
                                                  Parse(expr).node, FALSE)]]
    /\ UNCHANGED <<expr, errors, result, legacy, before, ncalls, threads,
                   catalog, request, built, compat, walker,
                   infer, fetch, session, main>>

ArityNext == TextCheck \/ TreeCheck

SpecArity == ArityInit /\ [][ArityNext]_vars

\* n is outside [min_args, max_args] of the operator called
OutOfRange ==
    \/ arity.n < valid_ops[arity.name].min_args
    \/ arity.n > valid_ops[arity.name].max_args

ArityCodes == {"too_few", "too_many"}

\* C4: for a signature with max_args set and 0 <= min_args <= max_args, a
\* call with n positional arguments gets an arity diagnostic exactly when
\* n < min_args or n > max_args, from the check on the tree and from the
\* check on the text alike; keyword arguments are not counted
C4_ArityDiagnosticIffOutOfRange ==
    /\ arity.tree.done =>
          (Codes(arity.tree.errors) \cap ArityCodes # {} <=> OutOfRange)
    /\ arity.text.done =>
          (Codes(arity.text.errors) \cap ArityCodes # {} <=> OutOfRange)

(***************************************************************************)
(* SpecIdem: validate calls one after the other on the same instance.      *)
(***************************************************************************)
MaxCalls == 7
IdemWords == 1

\* a text with no diagnostic, one with lexical, operator and field
\* diagnostics, one with a business-rule diagnostic
IdemPhrases ==
    {<<"c">>, <<"1", "a", "x", "(", ")">>, <<";", "x", "=", "1">>}

IdemInit ==
    /\ expr = <<>>
    /\ Instance

\* validator.validate(text) on the instance as the calls before left it
Call ==
    /\ ncalls < MaxCalls
    /\ \E text \in Texts(IdemPhrases, IdemWords) :
          LET r == ExpressionValidator_validate(errors, valid_field_names, text)
          IN  /\ expr' = text
              /\ errors' = r.errors
              /\ result' = r.result
    /\ before' = errors
    /\ ncalls' = ncalls + 1
    /\ UNCHANGED <<legacy, threads, catalog, request, built, arity,
                   compat, walker,
                   infer, fetch, session, main>>

IdemNext == Call

SpecIdem == IdemInit /\ [][IdemNext]_vars

\* C8: whatever calls were made before on the instance, validate(text)
\* returns the verdict and the ordered diagnostics it returns on a new
\* instance
C8_SameResultAfterEarlierCalls ==
    ncalls > 0 =>
       result = ExpressionValidator_validate(NewErrors, valid_field_names,
                                             expr).result

\* a call with diagnostics made on an instance whose lists an earlier call
\* left filled
C8_Witness ==
    /\ ncalls >= 2
    /\ before["character_validator"] # <<>>
    /\ before["operator_validator"] # <<>>
    /\ errors # before
    /\ result.status = "returned"
    /\ ~result.valid

(***************************************************************************)
(* SpecConc: two threads call validate on the same instance.  A thread can *)
(* be switched between any two steps of Program: the call that clears a    *)
(* list, the scan that fills it and the extend that reads it are separate  *)
(* statements.                                                             *)
(***************************************************************************)
ConcTexts ==
    {<<"c">>, <<"x", "(", ")">>, <<"1", "a">>, <<")">>, <<"x", "=", "1">>}

Threads == {1, 2}

ConcInit ==
    /\ threads \in [Threads -> {NewCall(text) : text \in ConcTexts}]
    /\ expr = <<>>
    /\ errors = NewErrors
    /\ result = NotCalled
    /\ legacy = NotCalled
    /\ before = NewErrors
    /\ ncalls = 0
    /\ catalog = {}
    /\ request = NoRequest
    /\ built = [status |-> "built", sub_validators |-> TRUE,
                message |-> NoMessage]
    /\ arity = NoArity
    /\ Idle

\* thread t runs the next step of its call
Step ==
    \E t \in Threads :
       /\ ~Done(threads[t])
       /\ LET s == validate_step(errors, valid_field_names, threads[t])
          IN  /\ errors' = s.errors
              /\ threads' = [threads EXCEPT ![t] = s.call]
       /\ UNCHANGED <<expr, result, legacy, before, ncalls, catalog, request,
                      built, arity, compat, walker,
                   infer, fetch, session, main>>

ConcNext == Step

SpecConc == ConcInit /\ [][ConcNext]_vars

\* C9: under every interleaving each of two concurrent validate calls
\* returns the verdict and the diagnostics it returns when it runs alone
C9_ConcurrentCallsAsAlone ==
    \A t \in DOMAIN threads :
       Done(threads[t]) =>
          threads[t].result =
             ExpressionValidator_validate(NewErrors, valid_field_names,
                                          threads[t].expr).result

(***************************************************************************)
(* SpecCtor: ExpressionValidator(region, delay, universe) over a catalog,  *)
(* then validate on the instance when there is one.                        *)
(***************************************************************************)
Regions == {<<"E">>, <<"U">>}
Delays == {<<"0">>, <<"1">>}
Universes == {<<"T">>, <<"T", "_", "M">>}

AllKeys ==
    {combination_key(r, d, u) : r \in Regions, d \in Delays, u \in Universes}

CtorInit ==
    /\ catalog \in SUBSET AllKeys
    /\ request \in [region : Regions, delay : Delays, universe : Universes]
    /\ built = NotBuilt
    /\ expr \in {<<"c">>, <<"x">>}
    /\ errors = NewErrors
    /\ result = NotCalled
    /\ legacy = NotCalled
    /\ before = NewErrors
    /\ ncalls = 0
    /\ threads = NoThreads
    /\ arity = NoArity
    /\ Idle

\* ExpressionValidator(region, delay, universe) of wqb_validator
Construct ==
    /\ built.status = "none"
    /\ built' = ExpressionValidator_init(catalog, request.region,
                                         request.delay, request.universe)
    /\ UNCHANGED <<expr, errors, result, legacy, before, ncalls, threads,
                   catalog, request, arity, compat, walker,
                   infer, fetch, session, main>>

\* ExpressionValidator(region, delay, universe) of the legacy validator
LegacyConstruct ==
    /\ built.status = "none"
    /\ built' = legacy_init(catalog, request.region, request.delay,
                            request.universe)
    /\ UNCHANGED <<expr, errors, result, legacy, before, ncalls, threads,
                   catalog, request, arity, compat, walker,
                   infer, fetch, session, main>>

\* validate on the instance the constructor returned
BuiltValidate ==
    /\ built.status = "built"
    /\ built.sub_validators
    /\ Validate

LegacyBuiltValidate ==
    /\ built.status = "built"
    /\ ~built.sub_validators
    /\ LegacyValidate

CtorNext == Construct \/ LegacyConstruct \/ BuiltValidate \/ LegacyBuiltValidate

SpecCtor == CtorInit /\ [][CtorNext]_vars

\* the key asked for is not in the catalog and a constructor has run
AbsentKey ==
    /\ built.status # "none"
    /\ combination_key(request.region, request.delay, request.universe)
          \notin catalog

\* the message has one line for a region, and delay/universe is on it
Listed(message, r, d, u) ==
    \E i \in DOMAIN message.regions :
       /\ message.regions[i].region = r
       /\ \E j \in DOMAIN message.regions[i].configs :
             message.regions[i].configs[j] = d \o <<"/">> \o u
       /\ \A k \in DOMAIN message.regions :
             message.regions[k].region = r => k = i

\* C10: when the key region_delay_universe is not in the field catalog the
\* constructor fails, no sub-validator is made and no text is validated,
\* and the message lists the keys of the catalog, those of a region
\* together: a delay/universe is listed under a region exactly when its key
\* is in the catalog
C10_AbsentKeyFailsListingCatalog ==
    AbsentKey =>
       /\ built.status = "raised"
       /\ ~built.sub_validators
       /\ result = NotCalled /\ legacy = NotCalled
       /\ built.message.key =
             combination_key(request.region, request.delay, request.universe)
       /\ \A r \in Regions, d \in Delays, u \in Universes :
             combination_key(r, d, u) \in catalog
                <=> Listed(built.message, r, d, u)

\* the constructor failed on a catalog with keys of two regions, one of
\* them with "_" in its universe
C10_Witness ==
    /\ AbsentKey
    /\ built.status = "raised"
    /\ Len(built.message.regions) = 2
    /\ \E r \in Regions, d \in Delays :
          combination_key(r, d, <<"T", "_", "M">>) \in catalog
    /\ Cardinality(catalog) >= 3

(***************************************************************************)
(* The trailing-assignment rule against the syntax tree (Spec).            *)
(***************************************************************************)
\* the tree's last statement is an assignment
EndsOnAssignment(tree) ==
    tree.ch # <<>> /\ tree.ch[Len(tree.ch)].k = "assignment_stmt"

LegacyCode == StripBlockComments(JoinLines(legacy_filtered_lines(expr)))

\* C11: for a text that parses, the list returned holds the
\* trailing-assignment diagnostic exactly when the last statement of the tree
\* is an assignment; the same for the legacy validate when its lexical checks
\* find nothing
C11_TrailingAssignmentAsInTree ==
    /\ (result.status = "returned" /\ Parses(Code))
       => ("trailing_assignment" \in Codes(result.msgs)
           <=> EndsOnAssignment(Tree))
    /\ (legacy.status = "returned" /\ Parses(LegacyCode)
        /\ _check_chinese_characters(expr) = <<>>)
       => ("trailing_assignment" \in Codes(legacy.msgs)
           <=> EndsOnAssignment(Parse(LegacyCode).node))

(***************************************************************************)
(* SpecTypes: one call _is_type_compatible(expected, actual) of the        *)
(* ExprValidator of either validator; expected is the list of the accepted *)
(* kinds, a single kind being a list of one.                               *)
(***************************************************************************)
\* the longest list of expected kinds
MaxKinds == 2

ExpectedKinds ==
    {"expr", "field", "number", "string", "boolean", "field_or_number",
     "unknown"}
ActualKinds == {"expr", "field", "number", "string", "boolean", "unknown"}

TypesInit ==
    /\ \E k \in 1..MaxKinds :
          \E expected \in [1..k -> ExpectedKinds], actual \in ActualKinds :
             compat = [NoCompat EXCEPT !.expected = expected,
                                       !.actual = actual]
    /\ walker = NoWalk
    /\ Offline
    /\ expr = <<>>
    /\ errors = NewErrors
    /\ result = NotCalled
    /\ legacy = NotCalled
    /\ before = NewErrors
    /\ ncalls = 0
    /\ threads = NoThreads
    /\ catalog = {}
    /\ request = NoRequest
    /\ built = [status |-> "built", sub_validators |-> TRUE,
                message |-> NoMessage]
    /\ arity = NoArity

Answer(b) == IF b THEN "yes" ELSE "no"

\* self._is_type_compatible(expected, actual) of wqb_validator
TypesCheck ==
    /\ compat.wqb = "none"
    /\ compat' = [compat EXCEPT
                    !.wqb = Answer(_is_type_compatible(compat.expected,
                                                       compat.actual))]
    /\ UNCHANGED <<expr, errors, result, legacy, before, ncalls, threads,
                   catalog, request, built, arity, walker,
                   infer, fetch, session, main>>

\* self._is_type_compatible(expected, actual) of the legacy validator
LegacyTypesCheck ==
    /\ compat.legacy = "none"
    /\ compat' = [compat EXCEPT
                    !.legacy = Answer(legacy_is_type_compatible(compat.expected,
                                                                compat.actual))]
    /\ UNCHANGED <<expr, errors, result, legacy, before, ncalls, threads,
                   catalog, request, built, arity, walker,
                   infer, fetch, session, main>>

TypesNext == TypesCheck \/ LegacyTypesCheck

SpecTypes == TypesInit /\ [][TypesNext]_vars

\* the answers given so far are all a
Answers(a) == compat.wqb \in {"none", a} /\ compat.legacy \in {"none", a}

\* C12: expected kind expr accepts the actual kinds field and number
C12_ExprAcceptsFieldAndNumber ==
    (compat.expected = <<"expr">> /\ compat.actual \in {"field", "number"})
    => Answers("yes")

\* C13: expected kind field_or_number accepts the actual kinds field and
\* number
C13_FieldOrNumberAcceptsBoth ==
    (compat.expected = <<"field_or_number">>
     /\ compat.actual \in {"field", "number"})
    => Answers("yes")

\* C14: expected kind boolean accepts exactly boolean, expr, field and
\* number; expected kind field accepts exactly field
C14_BooleanWideFieldNarrow ==
    /\ compat.expected = <<"boolean">>
       => Answers(Answer(compat.actual
                         \in {"boolean", "expr", "field", "number"}))
    /\ compat.expected = <<"field">>
       => Answers(Answer(compat.actual = "field"))

(***************************************************************************)
(* The lexical diagnostics in the list validate returns (Spec).            *)
(***************************************************************************)
\* the diagnostics of a list that have the given code
WithCode(msgs, code) == SelectSeq(msgs, LAMBDA m : m.code = code)

\* where the identifiers of a text that start with a digit begin
DigitStarts(text) ==
    {i \in RunStarts(text) : IsDigitStartRun(text, i)}

\* where the identifiers of a text that hold a double underscore begin
DoubleUnderscores(text) ==
    {i \in RunStarts(text) :
        IsIdentifierRun(text, i) /\ HasDoubleUnderscore(RunAt(text, i))}

\* C15: the list validate returns holds one diagnostic for each occurrence
\* of an identifier that starts with a digit, one for each occurrence of an
\* identifier that holds a double underscore, and no other of their kind
C15_OneDiagnosticPerBadIdentifier ==
    result.status = "returned"
    => /\ Len(WithCode(result.msgs, "digit_start"))
          = Cardinality(DigitStarts(Code))
       /\ Len(WithCode(result.msgs, "double_underscore"))
          = Cardinality(DoubleUnderscores(Code))

\* the elements of a list
Range(seq) == {seq[i] : i \in DOMAIN seq}

\* the lines the lexical validator numbers
LexicalLines == SplitLines(StripBlockComments(Code))

\* C16: every lexical diagnostic in the list validate returns has a line
\* that is the 1-based index of the line it was found in and a column that
\* is at least 1
C16_LexicalDiagnosticsPositioned ==
    result.status = "returned"
    => \A m \in Range(result.msgs) :
          m.src = "lexical"
          => /\ m.line \in 1..Len(LexicalLines)
             /\ m.col >= 1
             /\ m \in Range(CharLineErrs(LexicalLines[m.line], m.line))

\* the position of an error is known: it has a line and a column
Known(error) == Truthy(error.line) /\ Truthy(error.col)

\* C17: the string validate builds for an error gives the line and the
\* column exactly when the position is known, and is the message alone, with
\* no suggestion appended, when it is not
C17_RenderedForm ==
    result.status = "returned"
    => \A v \in Validators : \A e \in Range(errors[v]) :
          /\ Render(e) \in Range(result.msgs)
          /\ Known(e) => Render(e).line = e.line /\ Render(e).col = e.col
          /\ ~Known(e) => Render(e).line = None /\ Render(e).col = None
                          /\ ~Render(e).sugg

SyntaxClasses ==
    {"missing_separator", "malformed_call", "bracket_mismatch",
     "malformed_assignment", "syntax"}

\* C18: for a text the parser rejects, the list SyntaxValidator.validate
\* leaves holds exactly one diagnostic, of one of the five classes
C18_RejectionGivesOneDiagnostic ==
    (result.status # "none" /\ ~Parses(Code))
    => /\ Len(errors["syntax_validator"]) = 1
       /\ errors["syntax_validator"][1].code \in SyntaxClasses

(***************************************************************************)
(* The scope of the variables against the order of the statements (Spec).  *)
(***************************************************************************)
RECURSIVE RefNames(_)
\* the names a statement or an expression refers to
RefNames(node) ==
    (IF node.k = "field" THEN {node.v} ELSE {})
    \cup UNION {RefNames(node.ch[i]) : i \in DOMAIN node.ch}

\* statement j of the program binds name
Binds(tree, j, name) ==
    tree.ch[j].k = "assignment_stmt" /\ tree.ch[j].v = name

\* the names that are not fields and that some statement refers to with no
\* earlier statement binding them
Unbound(tree) ==
    {name \in RefNames(tree) \ valid_field_names :
        \E i \in DOMAIN tree.ch :
            /\ name \in RefNames(tree.ch[i])
            /\ \A j \in 1..(i - 1) : ~Binds(tree, j, name)}

\* the names a list of diagnostics reports as unknown
ReportedUnknown(msgs) ==
    {m.what : m \in {d \in Range(msgs) :
                        d.code \in {"unknown_field", "invalid_field"}}}

\* the names the claim speaks of: references that are no operator name
ScopedNames(tree) == RefNames(tree) \ (DOMAIN valid_ops \cup BoolWords)

\* C19: a name referred to is reported as unknown exactly when it is not a
\* field and some reference to it has no assignment in an earlier statement
C19_ScopeInSourceOrder ==
    /\ (result.status = "returned" /\ Parses(Code))
       => ReportedUnknown(result.msgs) \cap ScopedNames(Tree)
          = Unbound(Tree) \cap ScopedNames(Tree)
    /\ (legacy.status = "returned" /\ Parses(LegacyCode)
        /\ Sources(legacy.msgs) \subseteq {"semantic"})
       => ReportedUnknown(legacy.msgs) \cap ScopedNames(Parse(LegacyCode).node)
          = Unbound(Parse(LegacyCode).node)
            \cap ScopedNames(Parse(LegacyCode).node)

(***************************************************************************)
(* SpecWalk: an ExprValidator visits the statements of a program one after *)
(* the other, as Transformer.transform does with the children of the start *)
(* node; walker.next is the statement it visits next.                      *)
(***************************************************************************)
\* the most statements a program has
MaxStatements == 3

WalkStatements ==
    {<<"c", "=", "1">>, <<"f", "=", "1">>, <<"x", "=", "1">>, <<"x">>,
     <<"f", "(", "x", ")">>, <<"y", "=", "x">>}

RECURSIVE JoinStatements(_)
JoinStatements(stmts) ==
    IF Len(stmts) = 1 THEN stmts[1]
    ELSE stmts[1] \o <<";">> \o JoinStatements(Tail(stmts))

WalkTexts ==
    {JoinStatements(stmts) :
        stmts \in UNION {[1..n -> WalkStatements] : n \in 1..MaxStatements}}

WalkInit ==
    /\ expr \in WalkTexts
    /\ \E legacy_walker \in BOOLEAN :
          walker = [self |-> NewWalker(valid_field_names), next |-> 1,
                    legacy |-> legacy_walker]
    /\ compat = NoCompat
    /\ Offline
    /\ errors = NewErrors
    /\ result = NotCalled
    /\ legacy = NotCalled
    /\ before = NewErrors
    /\ ncalls = 0
    /\ threads = NoThreads
    /\ catalog = {}
    /\ request = NoRequest
    /\ built = [status |-> "built", sub_validators |-> TRUE,
                message |-> NoMessage]
    /\ arity = NoArity

\* the statements of the program, as the parser gives them
Program_statements == Parse(expr).node.ch

\* the callbacks of the next statement and of the nodes under it
VisitStatement ==
    /\ walker.next <= Len(Program_statements)
    /\ walker' = [walker EXCEPT
                    !.self = transform(walker.self,
                                       Program_statements[walker.next],
                                       walker.legacy).self,
                    !.next = @ + 1]
    /\ UNCHANGED <<expr, errors, result, legacy, before, ncalls, threads,
                   catalog, request, built, arity, compat,
                   infer, fetch, session, main>>

WalkNext == VisitStatement

SpecWalk == WalkInit /\ [][WalkNext]_vars

\* the names no variable may take
Reserved == DOMAIN valid_ops \cup valid_field_names

\* statement j assigns to a reserved name
AssignsReserved(j) ==
    /\ Program_statements[j].k = "assignment_stmt"
    /\ Program_statements[j].v \in Reserved

ReservedCodes == {"operator_as_variable", "field_as_variable"}

\* the diagnostics of a list for assignments to reserved names
ReservedErrs(errs) == SelectSeq(errs, LAMBDA e : e.code \in ReservedCodes)

\* the names the statements before statement i assign and may assign
BoundBefore(i) ==
    {Program_statements[j].v :
        j \in {k \in 1..(i - 1) :
                  /\ Program_statements[k].k = "assignment_stmt"
                  /\ Program_statements[k].v \notin Reserved}}

\* C20: the scope never holds an operator name or a field name; each
\* assignment to such a name, wherever it stands in the program, has added
\* one diagnostic, and visiting it leaves variables and variable_exprs as
\* they were
C20_ReservedNamesNeverBound ==
    /\ [](/\ DOMAIN walker.self.variables = BoundBefore(walker.next)
          /\ DOMAIN walker.self.variable_exprs = BoundBefore(walker.next)
          /\ Len(ReservedErrs(walker.self.errors))
             = Cardinality({j \in 1..(walker.next - 1) : AssignsReserved(j)}))
    /\ [][(VisitStatement /\ AssignsReserved(walker.next))
          => /\ walker'.self.variables = walker.self.variables
             /\ walker'.self.variable_exprs = walker.self.variable_exprs
             /\ Len(ReservedErrs(walker'.self.errors))
                = Len(ReservedErrs(walker.self.errors)) + 1
             /\ walker'.next = walker.next + 1]_vars

\* the walk is over; an assignment to a reserved name was followed by an
\* assignment that bound its name and by a diagnostic of a later statement
C20_Witness ==
    /\ walker.next = Len(Program_statements) + 1
    /\ \E j \in 1..(walker.next - 3) :
          /\ AssignsReserved(j)
          /\ Program_statements[j + 1].k = "assignment_stmt"
          /\ Program_statements[j + 1].v \in DOMAIN walker.self.variables
    /\ walker.self.errors[Len(walker.self.errors)].code = "unknown_field"


(***************************************************************************)
(* SpecNames: the walk of SpecWalk over programs that bind a name to a     *)
(* boolean word, to a variable, to a field and to a name that is none of   *)
(* them.                                                                   *)
(***************************************************************************)
\* a walker of either validator before the first statement of a text of texts
WalkFrom(texts) ==
    /\ expr \in texts
    /\ \E legacy_walker \in BOOLEAN :
          walker = [self |-> NewWalker(valid_field_names), next |-> 1,
                    legacy |-> legacy_walker]
    /\ compat = NoCompat
    /\ Offline
    /\ errors = NewErrors
    /\ result = NotCalled
    /\ legacy = NotCalled
    /\ before = NewErrors
    /\ ncalls = 0
    /\ threads = NoThreads
    /\ catalog = {}
    /\ request = NoRequest
    /\ built = [status |-> "built", sub_validators |-> TRUE,
                message |-> NoMessage]
    /\ arity = NoArity

ProgramsOf(statements) ==
    {JoinStatements(stmts) :
        stmts \in UNION {[1..n -> statements] : n \in 1..MaxStatements}}

NameStatements ==
    {<<"x", "=", "1">>, <<"y", "=", "x">>, <<"y", "=", "c">>,
     <<"y", "=", "t", "r", "u", "e">>, <<"x", "=", "y">>}

NamesInit == WalkFrom(ProgramsOf(NameStatements))

SpecNames == NamesInit /\ [][WalkNext]_vars

\* the type the priority gives a reference to name in the scope of self
PriorityType(self, name) ==
    IF name \in BoolWords THEN "boolean"
    ELSE IF name \in DOMAIN self.variables THEN self.variables[name]
    ELSE IF name \in self.valid_field_names THEN "field"
    ELSE "unknown"

\* the diagnostics the priority gives a reference to name
PriorityErrs(self, name) ==
    IF name \in BoolWords \cup DOMAIN self.variables \cup self.valid_field_names
    THEN <<>>
    ELSE <<SemErr("unknown_field", name, <<>>)>>

\* the statement visited next binds a name to a reference to a name
BindsReference(stmt) ==
    stmt.k = "assignment_stmt" /\ stmt.ch[1].k = "field"

\* C21: when the wqb walker visits a statement that binds a variable to a
\* reference to a name, the variable takes the type the priority gives the
\* reference (boolean for a boolean word, else the type of the variable in
\* scope, else field for a field, else unknown), and the walk adds one
\* unknown-field diagnostic in the last case and none in the others
C21_NameReferencePriority ==
    [][(/\ walker.next <= Len(Program_statements)
        /\ ~walker.legacy
        /\ BindsReference(Program_statements[walker.next]))
       => LET stmt == Program_statements[walker.next]
          IN  /\ walker'.self.variables[stmt.v]
                 = PriorityType(walker.self, stmt.ch[1].v)
              /\ walker'.self.errors
                 = walker.self.errors
                   \o PriorityErrs(walker.self, stmt.ch[1].v)]_vars


(***************************************************************************)
(* SpecCalls: the walk of SpecWalk over programs whose statements call     *)
(* operators with a number, a string or a field at each position.          *)
(***************************************************************************)
CallStatements ==
    {<<"v", "(", "c", ",", "1", ")">>, <<"v", "(", "c", ",", "c", ")">>,
     <<"g", "(", "c", ",", "1", ",", "c", ")">>, <<"f", "(", "1", ")">>,
     <<"q", "(", "1", ",", "c", ")">>,
     <<"f", "(", "c", ",", QUOTE, "1", QUOTE, ")">>}

CallsInit == WalkFrom(ProgramsOf(CallStatements))

SpecCalls == CallsInit /\ [][WalkNext]_vars

\* the type expected at 0-based index i of a call of op: the entry of the
\* positional types, else the variadic tail, else the last positional type,
\* else <<>> for an argument that is not checked
PositionType(op, i) ==
    IF i < Len(op.arg_types) THEN op.arg_types[i + 1]
    ELSE IF op.var_args_type # <<>> THEN op.var_args_type
    ELSE IF Len(op.arg_types) > 0 THEN op.arg_types[Len(op.arg_types)]
    ELSE <<>>

\* the statement is a call of a known operator on numbers, strings, fields
CallsOnLiterals(stmt) ==
    /\ stmt.k = "expr_stmt"
    /\ stmt.ch[1].k = "function"
    /\ stmt.ch[1].v \in DOMAIN valid_ops
    /\ \A i \in DOMAIN stmt.ch[1].ch :
          stmt.ch[1].ch[i].k \in {"number", "string", "field"}

\* the 1-based positions of call whose kind PositionType does not accept
Mismatched(call, legacy_walker) ==
    {i \in DOMAIN call.ch :
        /\ PositionType(valid_ops[call.v], i - 1) # <<>>
        /\ ~TypeOk(PositionType(valid_ops[call.v], i - 1), call.ch[i].k,
                   legacy_walker)}

\* C22: when a walker visits a call of a known operator, the type
\* diagnostics it adds are one for each position whose argument type is
\* not compatible with the type expected there, in order of position, the
\* expected type being positional_types[i], else the variadic tail type,
\* else the last positional type, else none
C22_PositionalTypeExpected ==
    [][(/\ walker.next <= Len(Program_statements)
        /\ CallsOnLiterals(Program_statements[walker.next]))
       => LET call == Program_statements[walker.next].ch[1]
              bad == SortedSeq(Mismatched(call, walker.legacy))
              added == SubSeq(walker'.self.errors,
                              Len(walker.self.errors) + 1,
                              Len(walker'.self.errors))
          IN  WithCode(added, "type_mismatch")
              = [j \in 1..Len(bad) |->
                    SemErr("type_mismatch", call.v, <<DigitStr[bad[j]]>>)]
      ]_vars


(***************************************************************************)
(* SpecKinds: one binary node, additive, multiplicative or a comparison,   *)
(* handed to _get_node_type of either validator; its operands are calls    *)
(* whose return types are the kinds infer.left and infer.right.            *)
(***************************************************************************)
\* no validator built, no text validated, no walk and no type test under way
NoValidator ==
    /\ expr = <<>>
    /\ errors = NewErrors
    /\ result = NotCalled
    /\ legacy = NotCalled
    /\ before = NewErrors
    /\ ncalls = 0
    /\ threads = NoThreads
    /\ catalog = {}
    /\ request = NoRequest
    /\ built = [status |-> "built", sub_validators |-> TRUE,
                message |-> NoMessage]
    /\ arity = NoArity
    /\ compat = NoCompat
    /\ walker = NoWalk

ArithmeticRules == {"add_expr", "mul_expr"}

KindsInit ==
    /\ \E rule \in ArithmeticRules \cup CompareRules,
          left \in ExpectedKinds, right \in ExpectedKinds :
             infer = [NoInfer EXCEPT !.rule = rule, !.left = left,
                                     !.right = right]
    /\ fetch = NoFetch
    /\ session = NoSession
    /\ main = NoMain
    /\ NoValidator

\* the node of infer after the callbacks of its operands
BinaryNode ==
    Node(infer.rule, <<>>,
         <<Dict("function_call", <<"f">>, infer.left),
           Dict("function_call", <<"f">>, infer.right)>>)

\* self._get_node_type(node) of wqb_validator
InferType ==
    /\ infer.wqb = "none"
    /\ infer' = [infer EXCEPT
                   !.wqb = NodeType(NewWalker({}), BinaryNode, FALSE)]
    /\ UNCHANGED <<expr, errors, result, legacy, before, ncalls, threads,
                   catalog, request, built, arity, compat, walker, fetch,
                   session, main>>

\* self._get_node_type(node) of the legacy validator
LegacyInferType ==
    /\ infer.legacy = "none"
    /\ infer' = [infer EXCEPT
                   !.legacy = NodeType(NewWalker({}), BinaryNode, TRUE)]
    /\ UNCHANGED <<expr, errors, result, legacy, before, ncalls, threads,
                   catalog, request, built, arity, compat, walker, fetch,
                   session, main>>

KindsNext == InferType \/ LegacyInferType

SpecKinds == KindsInit /\ [][KindsNext]_vars

\* the table of the kinds of an additive or multiplicative node
OperandTable(l, r) ==
    IF l = "unknown" /\ r = "unknown" THEN "unknown"
    ELSE IF {l, r} \cap {"expr", "field"} # {} THEN "expr"
    ELSE IF l = "number" /\ r = "number" THEN "number"
    ELSE "expr"

\* C23: for every pair of operand kinds, either validator infers for an
\* additive or multiplicative node unknown when both kinds are unknown, else
\* expr when one is expr or field, else number when both are number, else
\* expr; and either validator infers boolean for every comparison node
C23_ArithmeticAndComparisonKinds ==
    /\ (infer.rule \in ArithmeticRules /\ infer.wqb # "none")
       => infer.wqb = OperandTable(infer.left, infer.right)
    /\ (infer.rule \in ArithmeticRules /\ infer.legacy # "none")
       => infer.legacy = OperandTable(infer.left, infer.right)
    /\ (infer.rule \in CompareRules /\ infer.wqb # "none")
       => infer.wqb = "boolean"
    /\ (infer.rule \in CompareRules /\ infer.legacy # "none")
       => infer.legacy = "boolean"


(***************************************************************************)
(* SpecCycles: the walk of SpecWalk over programs whose bindings refer to  *)
(* one another, a name to itself or two names to each other; u is no       *)
(* operator, so the type bound to a call of u is unknown.                  *)
(***************************************************************************)
CycleStatements ==
    {<<"x", "=", "u", "(", ")">>, <<"y", "=", "x">>, <<"x", "=", "y">>,
     <<"x", "=", "x">>}

CyclesInit == WalkFrom(ProgramsOf(CycleStatements))

SpecCycles == CyclesInit /\ [][WalkNext]_vars

\* the defining expression of name is a reference to a variable
RefersOn(self, name) ==
    /\ name \in DOMAIN self.variable_exprs
    /\ self.variable_exprs[name].dict
    /\ self.variable_exprs[name].k = "variable"

RECURSIVE LazyCycle(_, _, _)
\* no type is stored for name nor for the names its defining expression
\* leads to, one reference after the other, until a name of seen comes again
LazyCycle(self, name, seen) ==
    IF name \in seen THEN TRUE
    ELSE /\ name \in DOMAIN self.variables
         /\ self.variables[name] = "unknown"
         /\ RefersOn(self, name)
         /\ LazyCycle(self, self.variable_exprs[name].v, seen \cup {name})

\* the statement binds a name to a reference to a variable in scope of self
BindsVariable(self, stmt) ==
    BindsReference(stmt) /\ stmt.ch[1].v \in DOMAIN self.variables

\* the walker has visited every statement
WalkDone == walker.next = Len(Program_statements) + 1

\* the names _get_node_type entered while it typed a reference to name
Entered(self, name, legacy_walker) ==
    _get_node_type(self, Dict("variable", name, self.variables[name]), {},
                   legacy_walker).visited

TwiceStatements ==
    {<<"x", "=", "1">>, <<"x", "=", "c">>, <<"y", "=", "x">>,
     <<"y", "=", "x", "+", "x">>, <<"y", "=", "x", "*", "x">>,
     <<"h", "(", "x", ",", "x", ")">>, <<"g", "(", "x", ",", "x", ")">>}

TwiceInit == WalkFrom(ProgramsOf(TwiceStatements))

SpecTwice == TwiceInit /\ [][WalkNext]_vars

\* the statement binds a name to a sum or product of one variable in scope
\* of self with itself
BindsDouble(self, stmt) ==
    /\ stmt.k = "assignment_stmt"
    /\ stmt.ch[1].k \in ArithmeticRules
    /\ Len(stmt.ch[1].ch) = 2
    /\ stmt.ch[1].ch[1].k = "field"
    /\ stmt.ch[1].ch[2] = stmt.ch[1].ch[1]
    /\ stmt.ch[1].ch[1].v \in DOMAIN self.variables

\* the type of one reference to the variable name in scope of self
SingleType(self, name, legacy_walker) ==
    NodeType(self, Dict("variable", name, self.variables[name]),
             legacy_walker)

\* the statement calls a known operator on one variable in scope, twice
CallsDouble(self, stmt) ==
    /\ CallsOnLiterals(stmt)
    /\ Len(stmt.ch[1].ch) = 2
    /\ stmt.ch[1].ch[1].k = "field"
    /\ stmt.ch[1].ch[2] = stmt.ch[1].ch[1]
    /\ stmt.ch[1].ch[1].v \in DOMAIN self.variables

\* C25: two references to one variable in one expression are typed as one
\* reference is: a sum or product of a variable with itself has the type
\* the table of the operand kinds gives for twice the type of the variable,
\* and a call on a variable twice gets its type diagnostics from that type
\* at both positions
C25_TwoReferencesTypedAlike ==
    [][/\ (/\ walker.next <= Len(Program_statements)
           /\ BindsDouble(walker.self, Program_statements[walker.next]))
          => LET stmt == Program_statements[walker.next]
                 t == SingleType(walker.self, stmt.ch[1].ch[1].v,
                                 walker.legacy)
             IN  walker'.self.variables[stmt.v] = OperandTable(t, t)
       /\ (/\ walker.next <= Len(Program_statements)
           /\ CallsDouble(walker.self, Program_statements[walker.next]))
          => LET call == Program_statements[walker.next].ch[1]
                 t == SingleType(walker.self, call.ch[1].v, walker.legacy)
                 bad == SortedSeq({i \in 1..2 :
                            /\ ExpectedType(valid_ops[call.v], i - 1,
                                            walker.legacy) # <<>>
                            /\ ~TypeOk(ExpectedType(valid_ops[call.v], i - 1,
                                                    walker.legacy),
                                       t, walker.legacy)})
                 added == SubSeq(walker'.self.errors,
                                 Len(walker.self.errors) + 1,
                                 Len(walker'.self.errors))
             IN  WithCode(added, "type_mismatch")
                 = [j \in 1..Len(bad) |->
                       SemErr("type_mismatch", call.v, <<DigitStr[bad[j]]>>)]
      ]_vars


(***************************************************************************)
(* SpecBrackets: Spec over texts made of brackets, names and line ends.    *)
(***************************************************************************)
\* the most pieces a text of brackets is made of
MaxBrackets == 4

BracketPhrases ==
    {<<"(">>, <<")">>, <<"x">>, <<NL>>, <<"f", "(">>, <<"(", ")">>}

BracketsInit ==
    /\ expr \in Texts(BracketPhrases, MaxBrackets)
    /\ Instance

SpecBrackets == BracketsInit /\ [][Next]_vars

\* the number of ch among the characters from..to of line
CountIn(line, ch, from, to) ==
    Cardinality({k \in from..to : k \in DOMAIN line /\ line[k] = ch})

\* the ")" of line that no earlier "(" of the line is left to match
UnmatchedClose(line) ==
    {i \in DOMAIN line :
        /\ line[i] = ")"
        /\ CountIn(line, ")", 1, i) > CountIn(line, "(", 1, i)}

\* the "(" of line that no later ")" of the line closes
UnclosedOpen(line) ==
    {i \in DOMAIN line :
        /\ line[i] = "("
        /\ \A j \in (i + 1)..Len(line) :
              CountIn(line, ")", i + 1, j) <= CountIn(line, "(", i + 1, j)}

BracketCodes == {"extra_rparen", "missing_rparen"}

\* the bracket diagnostics of a list that are given for line i
BracketsOn(msgs, i) ==
    SelectSeq(msgs, LAMBDA m : m.code \in BracketCodes /\ m.line = i)

\* C26: after validate, the list of the CharacterValidator holds at most
\* one bracket diagnostic for every line of the text: for a line with a ")"
\* that has no "(" before it to match, one at the column of the first such
\* ")"; else, for a line with a "(" left open at its end, one at the column
\* of an unclosed "("; for a line whose brackets balance, none; and none
\* for a line the text has not
C26_OneBracketDiagnosticPerLine ==
    result.status = "returned"
    => /\ \A m \in Range(errors.character_validator) :
             m.code \in BracketCodes => m.line \in 1..Len(LexicalLines)
       /\ \A i \in 1..Len(LexicalLines) :
             LET line == LexicalLines[i]
                 found == BracketsOn(errors.character_validator, i)
             IN  IF UnmatchedClose(line) # {}
                 THEN /\ Len(found) = 1
                      /\ found[1].code = "extra_rparen"
                      /\ found[1].col = Min(UnmatchedClose(line))
                 ELSE IF UnclosedOpen(line) # {}
                 THEN /\ Len(found) = 1
                      /\ found[1].code = "missing_rparen"
                      /\ found[1].col \in UnclosedOpen(line)
                 ELSE found = <<>>

\* validate returned for a text whose first line has a ")" too many after a
\* pair that matches and whose second line leaves a "(" open
C26_Witness ==
    /\ result.status = "returned"
    /\ Len(LexicalLines) = 2
    /\ \E m \in Range(errors.character_validator) :
          m.code = "extra_rparen" /\ m.line = 1 /\ m.col = 3
    /\ \E m \in Range(errors.character_validator) :
          m.code = "missing_rparen" /\ m.line = 2


(***************************************************************************)
(* SpecComments: Spec over texts made of comment marks, line ends, a name  *)
(* and a ")" that both validators report with its line.                    *)
(***************************************************************************)
\* the most pieces a text with comments is made of
MaxComments == 5

CommentPhrases ==
    {<<"/", "*">>, <<"*", "/">>, <<"#">>, <<NL>>, <<"x">>, <<")">>}

CommentsInit ==
    /\ expr \in Texts(CommentPhrases, MaxComments)
    /\ Instance

SpecComments == CommentsInit /\ [][Next]_vars

\* every ")" diagnostic of the list names a line of the text that holds ")"
OnLinesOfText(msgs) ==
    \A m \in Range(msgs) :
        m.code = "extra_rparen"
        => /\ m.line \in 1..Len(SplitLines(expr))
           /\ Contains(SplitLines(expr)[m.line], ")")

\* C27: the text without its block comments has as many line ends as the
\* text, and the line of every ")" diagnostic either validate returns is a
\* line of the text that holds a ")"
C27_CommentsKeepLineNumbers ==
    /\ result.status = "returned"
       => /\ Count(StripBlockComments(expr), NL) = Count(expr, NL)
          /\ OnLinesOfText(result.msgs)
    /\ legacy.status = "returned"
       => /\ Count(StripBlockComments(expr), NL) = Count(expr, NL)
          /\ OnLinesOfText(legacy.msgs)


(***************************************************************************)
(* SpecFetch: one call make_request_with_retry(session, url, max_retries)  *)
(* of utils/fetch_data.py (the function is the same text in both           *)
(* packages).  fetch.attempt is the loop index, fetch.outcomes what the    *)
(* GETs made so far gave, fetch.end how the call ended and fetch.returned  *)
(* the GET whose response it returned.                                     *)
(***************************************************************************)
\* the largest max_retries a call is made with
MaxRetries == 3

\* what session.get gives: a response with a status below 500 other than
\* 429, one with status 429, one with a status of 500 or more, or a
\* requests.exceptions.RequestException
Outcomes == {"ok", "429", "5xx", "exception"}

FetchInit ==
    /\ \E max_retries \in 0..MaxRetries :
          fetch = [NoFetch EXCEPT !.max_retries = max_retries,
                                  !.end = "running"]
    /\ infer = NoInfer
    /\ session = NoSession
    /\ main = NoMain
    /\ NoValidator

\* the call after the iteration of the loop in which session.get gave
\* outcome: "continue" goes to the next index, and past the last index the
\* loop ends and the function returns None
AfterGet(call, outcome) ==
    LET got == [call EXCEPT !.outcomes = Append(@, outcome)]
        continue == IF call.attempt < call.max_retries
                    THEN [got EXCEPT !.attempt = @ + 1]
                    ELSE [got EXCEPT !.attempt = @ + 1, !.end = "None"]
        return == [got EXCEPT !.end = "response",
                              !.returned = Len(got.outcomes)]
    IN  IF outcome = "exception"
        THEN (IF call.attempt < call.max_retries THEN continue
              ELSE [got EXCEPT !.end = "raised"])
        ELSE IF outcome = "429" THEN continue
        ELSE IF outcome = "5xx"
        THEN (IF call.attempt < call.max_retries THEN continue ELSE return)
        ELSE return

\* one iteration of "for attempt in range(max_retries + 1)"
make_request_with_retry ==
    /\ fetch.end = "running"
    /\ fetch.attempt <= fetch.max_retries
    /\ \E outcome \in Outcomes : fetch' = AfterGet(fetch, outcome)
    /\ UNCHANGED <<expr, errors, result, legacy, before, ncalls, threads,
                   catalog, request, built, arity, compat, walker, infer,
                   session, main>>

FetchNext == make_request_with_retry

SpecFetch == FetchInit /\ [][FetchNext]_vars

\* C28: a call makes at most max_retries + 1 GETs; when it returns a
\* response it is that of its last GET, the first whose status is neither
\* 429 nor 500 or more, or the last one received when the retries are used
\* up; when it raises, its last GET, the one of the final attempt, raised;
\* and it returns None only when no GET gave a response
C28_RetryEndsWithResponseOrRaise ==
    /\ Len(fetch.outcomes) <= fetch.max_retries + 1
    /\ fetch.end = "response"
       => /\ fetch.returned = Len(fetch.outcomes)
          /\ \A i \in 1..(fetch.returned - 1) : fetch.outcomes[i] # "ok"
          /\ \/ fetch.outcomes[fetch.returned] = "ok"
             \/ /\ fetch.returned = fetch.max_retries + 1
                /\ fetch.outcomes[fetch.returned] # "exception"
    /\ fetch.end = "raised"
       => /\ Len(fetch.outcomes) = fetch.max_retries + 1
          /\ fetch.outcomes[Len(fetch.outcomes)] = "exception"
    /\ fetch.end = "None"
       => \A i \in DOMAIN fetch.outcomes : fetch.outcomes[i] = "exception"


(***************************************************************************)
(* SpecLogin: calls of login() of one fetch_data module, one after the     *)
(* other.  session.s is the global s: "None", or the requests.Session it   *)
(* holds, told by what the authentication POST made on it gave.            *)
(* session.posts are the POSTs made so far and session.returned what each  *)
(* call gave: "None", "raised", or the session it returned.                *)
(***************************************************************************)
\* the most calls of login() made on one module
MaxLogins == 4

\* what s.post gives: a response with status 201, 401 or another status, or
\* an exception of requests
PostOutcomes == {"201", "401", "500", "exception"}

LoginInit ==
    /\ \E legacy_module \in BOOLEAN :
          session = [NoSession EXCEPT !.legacy = legacy_module]
    /\ infer = NoInfer
    /\ fetch = NoFetch
    /\ main = NoMain
    /\ NoValidator

\* login() of wqb_validator/utils/fetch_data.py; credentials: WQ_USERNAME
\* and WQ_PASSWORD are both set; post: what s.post gives if it is called
login(self, credentials, post) ==
    IF self.s # "None" THEN [self EXCEPT !.returned = Append(@, self.s)]
    ELSE IF ~credentials THEN [self EXCEPT !.returned = Append(@, "None")]
    ELSE IF post = "exception"
    THEN [self EXCEPT !.s = post, !.posts = Append(@, post),
                      !.returned = Append(@, "raised")]
    ELSE IF post = "201"
    THEN [self EXCEPT !.s = post, !.posts = Append(@, post),
                      !.returned = Append(@, post)]
    ELSE [self EXCEPT !.s = "None", !.posts = Append(@, post),
                      !.returned = Append(@, "None")]

\* login() of utils/fetch_data.py: the credentials are not looked at and
\* the session is returned whatever the status
legacy_login(self, post) ==
    IF self.s # "None" THEN [self EXCEPT !.returned = Append(@, self.s)]
    ELSE IF post = "exception"
    THEN [self EXCEPT !.s = post, !.posts = Append(@, post),
                      !.returned = Append(@, "raised")]
    ELSE [self EXCEPT !.s = post, !.posts = Append(@, post),
                      !.returned = Append(@, post)]

\* one call login()
Login ==
    /\ Len(session.returned) < MaxLogins
    /\ \E credentials \in BOOLEAN, post \in PostOutcomes :
          session' = IF session.legacy THEN legacy_login(session, post)
                     ELSE login(session, credentials, post)
    /\ UNCHANGED <<expr, errors, result, legacy, before, ncalls, threads,
                   catalog, request, built, arity, compat, walker, infer,
                   fetch, main>>

LoginNext == Login

SpecLogin == LoginInit /\ [][LoginNext]_vars

\* C29: the global s is None or a session whose authentication POST gave
\* 201, every call of login() gives None, an exception or such a session,
\* and s is None after a call that gave no session
C29_CachedSessionAuthenticated ==
    /\ session.s \in {"None", "201"}
    /\ \A i \in DOMAIN session.returned :
          session.returned[i] \in {"None", "raised", "201"}
    /\ (/\ session.returned # <<>>
        /\ session.returned[Len(session.returned)] \in {"None", "raised"})
       => session.s = "None"


\* ---------------------------------------------------------------------
\* main.py: handle_data_fields

\* the number of field combinations get_all_data_fields goes through
MaxCombinations == 2

\* the depth of calls at which the interpreter raises RecursionError
\* (sys.getrecursionlimit(), 1000 by default)
RecursionLimit == 4

\* the start of main.py's handle_data_fields(): data/data_fields.json
\* is there or not, nothing has been called
MainInit ==
    /\ NoValidator
    /\ infer = NoInfer /\ fetch = NoFetch /\ session = NoSession
    /\ \E exists \in BOOLEAN, combinations \in 0..MaxCombinations :
          main = [NoMain EXCEPT !.data_fields_json = exists,
                                !.combinations = combinations,
                                !.end = "running"]

\* one call of the name handle_data_fields in main.py. The def of line 19
\* rebinds the name imported on line 2, so the call of line 28 enters this
\* same function; the function of utils/handle_data.py, which would write
\* data_fields.json and count in grouped, is never reached from main.py.
\* get_all_data_fields counts every combination as a success or a failure.
handle_data_fields ==
    /\ main.end = "running"
    /\ IF Len(main.frames) >= RecursionLimit
       THEN main' = [main EXCEPT !.end = "RecursionError"]
       ELSE IF main.data_fields_json
       THEN main' = [main EXCEPT
                !.frames = Append(@, [exists |-> TRUE, success_count |-> 0,
                                      failed_count |-> 0]),
                !.end = "returned"]
       ELSE \E success_count \in 0..main.combinations :
              LET failed_count == main.combinations - success_count
                  frame == [exists |-> FALSE,
                            success_count |-> success_count,
                            failed_count |-> failed_count]
              IN  main' = [main EXCEPT
                     !.frames = Append(@, frame),
                     !.end = IF success_count = 0 /\ failed_count = 0
                             THEN "exit" ELSE "running"]
    /\ UNCHANGED <<expr, errors, result, legacy, before, ncalls, threads,
                   catalog, request, built, arity, compat, walker, infer,
                   fetch, session>>

MainNext == handle_data_fields

SpecMain == MainInit /\ [][MainNext]_vars

\* C30: handle_data_fields never runs into the recursion limit, and a run
\* that found data_fields.json absent and processed at least one
\* combination ends by returning, with the grouping step run once and
\* data_fields.json written
C30_HandleDataFieldsTerminates ==
    /\ main.end # "RecursionError"
    /\ (/\ main.end \notin {"none", "running"}
        /\ main.frames # <<>>
        /\ ~main.frames[1].exists
        /\ main.frames[1].success_count + main.frames[1].failed_count >= 1)
       => /\ main.end = "returned"
          /\ main.grouped = 1
          /\ main.data_fields_json

====
